---------------------------- MODULE Spec2Model ----------------------------
(***************************************************************************)
(* State-machine model of the JSON-backed services of the mup sidecar:     *)
(* CostTrackingService, ModelPresetsService, IconThemeService and          *)
(* ModelHealthService, and of two frontend utilities, predictTokenUsage    *)
(* and useWorkspaceFavorites.  Each has its own specification (SpecCost,   *)
(* SpecPresets, SpecIcon, SpecHealth, SpecPredict, SpecFavorites); the     *)
(* variables of the others stay at their idle values.  SpecWrites runs     *)
(* two savePreset and two recordCost calls step by step between their      *)
(* awaits.  SpecIconManifest and SpecIconOverlap run the icon theme        *)
(* service on archives with hostile manifests and with deleteTheme split   *)
(* at its awaits; SpecSidecar is the shutdown handler of the sidecar,      *)
(* SpecDeepLink the deep-link queue of the Tauri API shim, SpecModels the  *)
(* custom models of ModelsSection and their presets, SpecTheme the         *)
(* IconThemeProvider and SpecSnippets the useCodeSnippets hook.            *)
(*                                                                         *)
(* Conventions                                                             *)
(*  - time is counted in ticks, TicksPerDay ticks to a UTC day (the code   *)
(*    counts milliseconds, 86_400_000 to a day); a date key YYYY-MM-DD is  *)
(*    modelled by the day number, whose order is the order of the keys;    *)
(*  - costs are integers (the code adds IEEE doubles);                     *)
(*  - a file on disk is "missing", "corrupt" (not parsable) or "json";     *)
(*  - writeOk = FALSE is a write (mkdir or write-file-atomic) that         *)
(*    rejects: the file keeps its previous content.                        *)
(***************************************************************************)
EXTENDS Integers, Sequences, FiniteSets, TLC

VARIABLES
    now,            \* Date.now(), in ticks
    costFile,       \* cost-history.json on disk
    costEmpty,      \* the arrays/objects the module constant EMPTY_FILE (cost) refers to
    costLast,       \* history: the last CostTrackingService call, its input state and result
    costRun,        \* history: the current run of completed recordCost calls on one date
    costCalls,      \* history: the number of recordCost calls made
    presetsFile,    \* model-presets.json on disk
    presetsEmpty,   \* the array the module constant EMPTY_FILE (presets) refers to
    presetsNextId,  \* the number of ids crypto.randomUUID() has handed out
    presetsLast,    \* history: the last ModelPresetsService call, its arguments and result
    exported,       \* the last string exportPresets returned, and the presets it held
    iconConfig,     \* iconThemeConfig of the persisted application config
    iconDisk,       \* the files and directories on disk
    iconLast,       \* history: the last IconThemeService call, its arguments and result
    providersFile,  \* providers.jsonc on disk
    credentials,    \* what resolveProviderCredentials makes of the section and the environment
    healthCache,    \* ModelHealthService.cache: key -> HealthCheckResult
    ruleCheck,      \* history: a customMetadata and what the checks made of it
    prediction,     \* a call of predictTokenUsage: its params and its result
    favorites,      \* the state of usePersistedState("workspaceFavorites:list")
    favoritesView,  \* the favorites array the last render handed to the callbacks
    favoritesShared,\* whether that array is still the state's own array object
    favLast,        \* history: the last useWorkspaceFavorites call and its argument
    presetsInFlight,\* the savePreset calls between their awaits
    costInFlight,   \* the recordCost calls between their awaits
    writeOrder,     \* history: per store, the calls in the order their writes landed
    iconInFlight,   \* the deleteTheme calls between their awaits
    sidecar,        \* the sidecar process: exit state, calls made, their order
    shutdowns,      \* the runs of the shutdown handler
    pendingDeepLinks,   \* the shim's queue of deep links nobody was subscribed for
    deepLinkCallbacks,  \* the shim's array of onDeepLink callbacks
    deepLinkLog,    \* history: events, registrations, deliveries, returned links
    providersConfig,\* the providers config of ModelsSection: custom models, metadata
    savedPreset,    \* the models of the preset ModelPresetsDialog stored
    themeCtx,       \* the state of IconThemeProvider
    themeFetch,     \* the fetchTheme calls between their awaits
    themeLast,      \* history: how the fetchTheme call that settled last ended
    snippets,       \* the state of usePersistedState(CODE_SNIPPETS_KEY)
    snippetNextId,  \* the number of the next id crypto.randomUUID() hands out
    snippetImports  \* the importSnippets calls: reader state, closure, promise

costVars == <<costFile, costEmpty, costLast, costRun, costCalls>>

presetsVars == <<presetsFile, presetsEmpty, presetsNextId, presetsLast, exported>>

iconVars == <<iconConfig, iconDisk, iconLast>>

healthVars == <<providersFile, credentials, healthCache, ruleCheck>>

clientVars == <<prediction, favorites, favoritesView, favoritesShared, favLast>>

writeVars == <<presetsInFlight, costInFlight, writeOrder, iconInFlight>>

deepLinkVars == <<pendingDeepLinks, deepLinkCallbacks, deepLinkLog>>

modelsVars == <<providersConfig, savedPreset>>

themeVars == <<themeCtx, themeFetch, themeLast>>

snippetVars == <<snippets, snippetNextId, snippetImports>>

uiVars == <<modelsVars, themeVars, snippetVars>>

appVars == <<sidecar, shutdowns, deepLinkVars, uiVars>>

vars == <<now, costVars, presetsVars, iconVars, healthVars, clientVars, writeVars, appVars>>

\* ------------------------------------------------------------------ bounds

MaxTime == 3
TicksPerDay == 2
MaxEntries == 2
MaxRetentionDays == 1
MaxPresets == 3
MaxIds == 2
MaxPresetsTime == 1
MaxCached == 2
MaxFavoritesTime == 2
MaxSignals == 2
MaxEvents == 3
MaxRegistrations == 3
MaxSnippets == 2

\* ------------------------------------------------------------------ helpers

EmptyFcn == [x \in {} |-> 0]

RECURSIVE SumSeq(_)
SumSeq(s) ==
    IF s = <<>> THEN 0 ELSE Head(s) + SumSeq(Tail(s))

Range(s) == {s[i] : i \in DOMAIN s}

\* ================================================================== cost
\* CostTrackingService

Models == {"m1", "m2"}

\* The token and cost fields of the entries recordCost is called with.
CostShapes ==
    { [model |-> "m1", inputTokens |-> 1, outputTokens |-> 2, cachedTokens |-> 0,
       cacheCreateTokens |-> 4, reasoningTokens |-> 0, cost |-> 1],
      [model |-> "m2", inputTokens |-> 2, outputTokens |-> 0, cachedTokens |-> 1,
       cacheCreateTokens |-> 0, reasoningTokens |-> 3, cost |-> 2] }

MakeEntry(ts, shape) ==
    [timestamp |-> ts, model |-> shape.model,
     inputTokens |-> shape.inputTokens, outputTokens |-> shape.outputTokens,
     cachedTokens |-> shape.cachedTokens, cacheCreateTokens |-> shape.cacheCreateTokens,
     reasoningTokens |-> shape.reasoningTokens, cost |-> shape.cost]

\* new Date(ts).toISOString().slice(0, 10)
DateKey(ts) == ts \div TicksPerDay

CostFileOf(kind, version, entries, summaries) ==
    [kind |-> kind, version |-> version, entries |-> entries, dailySummaries |-> summaries]

CostMissing == CostFileOf("missing", 0, <<>>, EmptyFcn)
CostCorrupt == CostFileOf("corrupt", 0, <<>>, EmptyFcn)

\* read(): the parsed file, or { ...EMPTY_FILE }.  The spread copies the
\* references: entries and dailySummaries of the result ARE the array and
\* the object of EMPTY_FILE (shared = TRUE).
CostRead(file, empty) ==
    IF file.kind = "json" /\ file.version = 1
        THEN [entries |-> file.entries, dailySummaries |-> file.dailySummaries,
              shared |-> FALSE]
        ELSE [entries |-> empty.entries, dailySummaries |-> empty.dailySummaries,
              shared |-> TRUE]

\* A slip that counts the cache-creation tokens too.
EntryTokensWithCacheCreate(e) ==
    e.inputTokens + e.outputTokens + e.cachedTokens + e.cacheCreateTokens
        + e.reasoningTokens

EntryTokens(e) ==
    e.inputTokens + e.outputTokens + e.cachedTokens + e.reasoningTokens

\* The "Update daily summary" block of recordCost.
AddToSummaries(summaries, e) ==
    LET dateKey == DateKey(e.timestamp)
        summary == IF dateKey \in DOMAIN summaries
                       THEN summaries[dateKey]
                       ELSE [date |-> dateKey, totalCost |-> 0, requestCount |-> 0,
                             byModel |-> EmptyFcn]
        modelSummary == IF e.model \in DOMAIN summary.byModel
                            THEN summary.byModel[e.model]
                            ELSE [cost |-> 0, requests |-> 0, tokens |-> 0]
        modelSummary2 == [cost |-> modelSummary.cost + e.cost,
                          requests |-> modelSummary.requests + 1,
                          tokens |-> modelSummary.tokens + EntryTokens(e)]
        summary2 == [date |-> summary.date,
                     totalCost |-> summary.totalCost + e.cost,
                     requestCount |-> summary.requestCount + 1,
                     byModel |-> [m \in DOMAIN summary.byModel \cup {e.model} |->
                                     IF m = e.model THEN modelSummary2
                                                    ELSE summary.byModel[m]]]
    IN  [d \in DOMAIN summaries \cup {dateKey} |->
            IF d = dateKey THEN summary2 ELSE summaries[d]]

\* data.entries.filter((e) => e.timestamp >= cutoff)
KeepEntries(entries, cutoff) ==
    SelectSeq(entries, LAMBDA e : e.timestamp >= cutoff)

\* for (key of Object.keys(dailySummaries)) if (key < cutoffDate) delete ...
KeepSummaries(summaries, cutoffDate) ==
    [d \in {k \in DOMAIN summaries : ~(k < cutoffDate)} |-> summaries[d]]

NoRun == [active |-> FALSE, date |-> 0, log |-> <<>>]
NoCall == [op |-> "none", pre |-> <<>>, preSummaries |-> EmptyFcn, cutoff |-> 0,
           ret |-> 0, rejected |-> FALSE]

CostIdle ==
    /\ costFile = CostMissing
    /\ costEmpty = [entries |-> <<>>, dailySummaries |-> EmptyFcn]
    /\ costLast = NoCall
    /\ costRun = NoRun
    /\ costCalls = 0

\* A foreign cost-history.json: parses, but carries another version tag.
CostForeign ==
    LET e == MakeEntry(0, CHOOSE s \in CostShapes : s.model = "m1")
    IN  CostFileOf("json", 2, <<e>>, AddToSummaries(EmptyFcn, e))

CostInit ==
    /\ costFile \in {CostMissing, CostCorrupt, CostForeign}
    /\ costEmpty = [entries |-> <<>>, dailySummaries |-> EmptyFcn]
    /\ costLast = NoCall
    /\ costRun = NoRun
    /\ costCalls = 0

\* recordCost(entry)
RecordCost(entry, writeOk) ==
    LET data == CostRead(costFile, costEmpty)
        entries2 == Append(data.entries, entry)
        summaries2 == AddToSummaries(data.dailySummaries, entry)
        dateKey == DateKey(entry.timestamp)
    IN  /\ costCalls < MaxEntries
        /\ costCalls' = costCalls + 1
        /\ costEmpty' = IF data.shared
                            THEN [entries |-> entries2, dailySummaries |-> summaries2]
                            ELSE costEmpty
        /\ costFile' = IF writeOk THEN CostFileOf("json", 1, entries2, summaries2)
                                  ELSE costFile
        /\ costLast' = [NoCall EXCEPT !.op = "recordCost", !.rejected = ~writeOk]
        /\ costRun' = IF ~writeOk THEN NoRun
                      ELSE IF costRun.active /\ costRun.date = dateKey
                          THEN [costRun EXCEPT !.log = Append(@, entry)]
                      ELSE IF dateKey \notin DOMAIN data.dailySummaries
                          THEN [active |-> TRUE, date |-> dateKey, log |-> <<entry>>]
                      ELSE NoRun
        /\ UNCHANGED now

\* pruneOldEntries(retentionDays)
PruneOldEntries(retentionDays, writeOk) ==
    LET data == CostRead(costFile, costEmpty)
        cutoff == now - retentionDays * TicksPerDay
        cutoffDate == DateKey(cutoff)
        kept == KeepEntries(data.entries, cutoff)
        summaries2 == KeepSummaries(data.dailySummaries, cutoffDate)
        pruned == Len(data.entries) - Len(kept)
    IN  /\ costEmpty' = IF data.shared
                            THEN [costEmpty EXCEPT !.dailySummaries = summaries2]
                            ELSE costEmpty
        /\ costFile' = IF pruned > 0 /\ writeOk
                           THEN CostFileOf("json", 1, kept, summaries2)
                           ELSE costFile
        /\ costLast' = [op |-> "pruneOldEntries", pre |-> data.entries,
                        preSummaries |-> data.dailySummaries, cutoff |-> cutoff,
                        ret |-> pruned, rejected |-> (pruned > 0 /\ ~writeOk)]
        /\ costRun' = NoRun
        /\ UNCHANGED <<now, costCalls>>

\* The clock advances.
Tick ==
    /\ now < MaxTime
    /\ now' = now + 1

CostRecordStep ==
    \E ts \in 0..now, shape \in CostShapes, writeOk \in BOOLEAN :
        RecordCost(MakeEntry(ts, shape), writeOk)

CostPruneStep ==
    \E r \in 0..MaxRetentionDays, writeOk \in BOOLEAN : PruneOldEntries(r, writeOk)

\* The same calls when every write succeeds.
CostRecordOk ==
    \E ts \in 0..now, shape \in CostShapes : RecordCost(MakeEntry(ts, shape), TRUE)

CostPruneOk ==
    \E r \in 0..MaxRetentionDays : PruneOldEntries(r, TRUE)


\* ================================================================== JSON
\* JSON text is modelled by the value it parses to; a text that does not
\* parse is JInvalid.  A property that is absent reads as JUndef, and
\* JSON.stringify leaves out a property whose value is undefined.

JUndef == [t |-> "undefined"]
JNull == [t |-> "null"]
JInvalid == [t |-> "invalid"]
JNum(n) == [t |-> "num", n |-> n]
JStr(str) == [t |-> "str", s |-> str]
JArr(seq) == [t |-> "arr", a |-> seq]
JObj(fcn) == [t |-> "obj", o |-> fcn]

\* obj[key]
Get(j, key) == IF j.t = "obj" /\ key \in DOMAIN j.o THEN j.o[key] ELSE JUndef

\* x && typeof x === "object"
IsObject(j) == j.t \in {"obj", "arr"}

MapSeq(seq, F(_)) == [i \in DOMAIN seq |-> F(seq[i])]

\* ================================================================== presets
\* ModelPresetsService

Undefined == "undefined"

\* JSON.stringify of a PresetModelEntry, and the cast back after JSON.parse.
ModelToJson(m) ==
    JObj([k \in {"provider", "modelId"}
                \cup (IF m.metadata = JUndef THEN {} ELSE {"metadata"}) |->
            CASE k = "provider" -> JStr(m.provider)
              [] k = "modelId" -> JStr(m.modelId)
              [] OTHER -> m.metadata])

ModelOfJson(j) ==
    [provider |-> Get(j, "provider").s, modelId |-> Get(j, "modelId").s,
     metadata |-> Get(j, "metadata")]

\* JSON.stringify of a ModelPreset, and the cast back after JSON.parse.
PresetToJson(p) ==
    JObj([k \in {"id", "name", "createdAt", "updatedAt", "models"}
                \cup (IF p.description = Undefined THEN {} ELSE {"description"}) |->
            CASE k = "id" -> JNum(p.id)
              [] k = "name" -> JStr(p.name)
              [] k = "description" -> JStr(p.description)
              [] k = "createdAt" -> JNum(p.createdAt)
              [] k = "updatedAt" -> JNum(p.updatedAt)
              [] OTHER -> JArr(MapSeq(p.models, ModelToJson))])

PresetOfJson(j) ==
    [id |-> Get(j, "id").n, name |-> Get(j, "name").s,
     description |-> IF Get(j, "description").t = "str"
                         THEN Get(j, "description").s ELSE Undefined,
     createdAt |-> Get(j, "createdAt").n, updatedAt |-> Get(j, "updatedAt").n,
     models |-> MapSeq(Get(j, "models").a, ModelOfJson)]

\* JSON.stringify({ version, presets })
PresetsToJson(version, presets) ==
    JObj([version |-> JNum(version), presets |-> JArr(MapSeq(presets, PresetToJson))])

PresetsMissing == [kind |-> "missing", json |-> JInvalid]
PresetsCorrupt == [kind |-> "corrupt", json |-> JInvalid]
PresetsJson(version, presets) ==
    [kind |-> "json", json |-> PresetsToJson(version, presets)]

\* readFile(): the parsed file as it is (no look at its version), or
\* { ...EMPTY_FILE }, whose presets array IS the array of EMPTY_FILE.
PresetsReadFile(file, empty) ==
    IF file.kind = "json"
        THEN [version |-> Get(file.json, "version").n,
              presets |-> MapSeq(Get(file.json, "presets").a, PresetOfJson),
              shared |-> FALSE]
        ELSE [version |-> 1, presets |-> empty, shared |-> TRUE]

\* listPresets()
ListPresets(file, empty) == PresetsReadFile(file, empty).presets

\* file.presets.find((p) => p.id === id): the index, 0 when there is none
FindPreset(presets, id) ==
    IF \E i \in DOMAIN presets : presets[i].id = id
        THEN CHOOSE i \in DOMAIN presets :
                 presets[i].id = id /\ \A j \in 1..(i - 1) : presets[j].id # id
        ELSE 0

\* getPreset(id): the one-element list of the preset, or the empty list
GetPreset(file, empty, id) ==
    LET ps == ListPresets(file, empty)
    IN  IF FindPreset(ps, id) = 0 THEN <<>> ELSE <<ps[FindPreset(ps, id)]>>

\* crypto.randomUUID(): the k-th id drawn after n were; no id is drawn twice.
RandomUUID(n, k) == n + k

RemoveAt(seq, i) == SubSeq(seq, 1, i - 1) \o SubSeq(seq, i + 1, Len(seq))

\* The result of writeFile(file): what the file and EMPTY_FILE's array hold
\* after the call mutated `presets` in place and wrote it.
PresetsCommit(data, presets2, writeOk) ==
    /\ presetsEmpty' = IF data.shared THEN presets2 ELSE presetsEmpty
    /\ presetsFile' = IF writeOk THEN PresetsJson(data.version, presets2)
                                 ELSE presetsFile

NoPresetCall ==
    [op |-> "none", status |-> "ok", data |-> <<>>,
     name |-> Undefined, description |-> Undefined, models |-> <<>>, json |-> JUndef]

Status(writeOk) == IF writeOk THEN "ok" ELSE "rejected"

\* A slip that stamps updatedAt after createdAt and forgets the description.
NewPresetSlip(id, name, models, description, at) ==
    [id |-> id, name |-> name, description |-> Undefined, createdAt |-> at,
     updatedAt |-> at + 1, models |-> models]

\* The preset object savePreset builds.
NewPreset(id, name, models, description, at) ==
    [id |-> id, name |-> name, description |-> description, createdAt |-> at,
     updatedAt |-> at, models |-> models]

\* savePreset(name, models, description)
SavePreset(name, models, description, writeOk) ==
    LET data == PresetsReadFile(presetsFile, presetsEmpty)
        preset == NewPreset(RandomUUID(presetsNextId, 1), name, models, description, now)
    IN  /\ Len(data.presets) < MaxPresets
        /\ presetsNextId < MaxIds
        /\ presetsNextId' = presetsNextId + 1
        /\ PresetsCommit(data, Append(data.presets, preset), writeOk)
        /\ presetsLast' = [NoPresetCall EXCEPT !.op = "savePreset",
                              !.status = Status(writeOk),
                              !.data = IF writeOk THEN <<preset>> ELSE <<>>,
                              !.name = name, !.description = description,
                              !.models = models]
        /\ UNCHANGED <<now, exported>>

\* A slip that writes the file back before it looks for the id.
DeletePresetWritesFirst(id, writeOk) ==
    LET data == PresetsReadFile(presetsFile, presetsEmpty)
        index == FindPreset(data.presets, id)
    IN  /\ PresetsCommit(data, IF index = 0 THEN data.presets
                                            ELSE RemoveAt(data.presets, index), writeOk)
        /\ presetsLast' = [NoPresetCall EXCEPT !.op = "deletePreset",
                              !.status = IF index = 0 THEN "error" ELSE Status(writeOk)]
        /\ UNCHANGED <<now, presetsNextId, exported>>

\* deletePreset(id)
DeletePreset(id, writeOk) ==
    LET data == PresetsReadFile(presetsFile, presetsEmpty)
        index == FindPreset(data.presets, id)
    IN  /\ IF index = 0
               THEN /\ UNCHANGED <<presetsFile, presetsEmpty>>
                    /\ presetsLast' = [NoPresetCall EXCEPT !.op = "deletePreset",
                                          !.status = "error"]
               ELSE /\ PresetsCommit(data, RemoveAt(data.presets, index), writeOk)
                    /\ presetsLast' = [NoPresetCall EXCEPT !.op = "deletePreset",
                                          !.status = Status(writeOk)]
        /\ UNCHANGED <<now, presetsNextId, exported>>

\* updatePreset(id, updates); a field of updates that is not given is Undefined
\* (models: the one-element list of the new list, or the empty list)
UpdatePreset(id, updates, writeOk) ==
    LET data == PresetsReadFile(presetsFile, presetsEmpty)
        index == FindPreset(data.presets, id)
        old == data.presets[index]
        preset == [id |-> old.id,
                   name |-> IF updates.name # Undefined THEN updates.name ELSE old.name,
                   description |-> IF updates.description # Undefined
                                       THEN updates.description ELSE old.description,
                   createdAt |-> old.createdAt, updatedAt |-> now,
                   models |-> IF updates.models # <<>> THEN updates.models[1]
                                                       ELSE old.models]
    IN  /\ IF index = 0
               THEN /\ UNCHANGED <<presetsFile, presetsEmpty>>
                    /\ presetsLast' = [NoPresetCall EXCEPT !.op = "updatePreset",
                                          !.status = "error"]
               ELSE /\ PresetsCommit(data, [data.presets EXCEPT ![index] = preset],
                                     writeOk)
                    /\ presetsLast' = [NoPresetCall EXCEPT !.op = "updatePreset",
                                          !.status = Status(writeOk),
                                          !.data = IF writeOk THEN <<preset>> ELSE <<>>]
        /\ UNCHANGED <<now, presetsNextId, exported>>

\* exportPresets(ids); ids = <<>> stands for no argument, <<S>> for the list S
ExportPresets(ids) ==
    LET file == PresetsReadFile(presetsFile, presetsEmpty)
        presets == IF ids = <<>> THEN file.presets
                   ELSE SelectSeq(file.presets, LAMBDA p : p.id \in ids[1])
    IN  /\ exported' = [json |-> PresetsToJson(1, presets), presets |-> presets]
        /\ presetsLast' = [NoPresetCall EXCEPT !.op = "exportPresets"]
        /\ UNCHANGED <<now, presetsFile, presetsEmpty, presetsNextId>>

\* The checks importPresets makes on one element of the presets array and on
\* one element of its models.
ValidRawModel(m) ==
    /\ IsObject(m)
    /\ Get(m, "provider").t = "str"
    /\ Get(m, "modelId").t = "str"

\* A slip that also asks for a string description.
ValidRawPresetStrict(raw) ==
    /\ IsObject(raw)
    /\ Get(raw, "name").t = "str"
    /\ Get(raw, "description").t = "str"
    /\ Get(raw, "models").t = "arr"

ValidRawPreset(raw) ==
    /\ IsObject(raw)
    /\ Get(raw, "name").t = "str"
    /\ Get(raw, "models").t = "arr"

\* A slip that keeps the id of the imported element.
ImportedPresetKeepsId(raw, id, at) ==
    [id |-> IF Get(raw, "id").t = "num" THEN Get(raw, "id").n ELSE id,
     name |-> Get(raw, "name").s,
     description |-> IF Get(raw, "description").t = "str"
                         THEN Get(raw, "description").s ELSE Undefined,
     createdAt |-> at, updatedAt |-> at,
     models |-> MapSeq(SelectSeq(Get(raw, "models").a, ValidRawModel), ModelOfJson)]

\* The preset importPresets builds from a valid element.
ImportedPreset(raw, id, at) ==
    [id |-> id, name |-> Get(raw, "name").s,
     description |-> IF Get(raw, "description").t = "str"
                         THEN Get(raw, "description").s ELSE Undefined,
     createdAt |-> at, updatedAt |-> at,
     models |-> MapSeq(SelectSeq(Get(raw, "models").a, ValidRawModel), ModelOfJson)]

\* importPresets(json)
ImportPresets(json, writeOk) ==
    LET call == [NoPresetCall EXCEPT !.op = "importPresets", !.json = json]
        data == PresetsReadFile(presetsFile, presetsEmpty)
        valid == SelectSeq(Get(json, "presets").a, ValidRawPreset)
        imported == [i \in DOMAIN valid |->
                        ImportedPreset(valid[i], RandomUUID(presetsNextId, i), now)]
    IN  /\ UNCHANGED <<now, exported>>
        /\ IF json.t = "invalid" \/ ~IsObject(json) \/ Get(json, "presets").t # "arr"
               THEN /\ presetsLast' = [call EXCEPT !.status = "error"]
                    /\ UNCHANGED <<presetsFile, presetsEmpty, presetsNextId>>
               ELSE /\ Len(data.presets) + Len(valid) <= MaxPresets
                    /\ presetsNextId + Len(valid) <= MaxIds
                    /\ presetsNextId' = presetsNextId + Len(valid)
                    /\ presetsLast' = [call EXCEPT
                                          !.status = IF imported = <<>> THEN "error"
                                                     ELSE Status(writeOk),
                                          !.data = IF imported # <<>> /\ writeOk
                                                       THEN imported ELSE <<>>]
                    /\ IF imported = <<>>
                           THEN UNCHANGED <<presetsFile, presetsEmpty>>
                           ELSE PresetsCommit(data, data.presets \o imported, writeOk)


\* ------------------------------------------------------------------ presets: inputs

Meta == JObj([maxInputTokens |-> JNum(1000)])

ModelA == [provider |-> "p1", modelId |-> "m1", metadata |-> Meta]
ModelB == [provider |-> "p2", modelId |-> "m2", metadata |-> JUndef]

\* The arguments savePreset is called with.
PresetInputs ==
    { [name |-> "n1", description |-> Undefined, models |-> <<>>],
      [name |-> "n2", description |-> "d1", models |-> <<ModelA, ModelB>>] }

\* The updates updatePreset is called with.
PresetUpdates ==
    { [name |-> "n3", description |-> Undefined, models |-> <<>>],
      [name |-> Undefined, description |-> "d2", models |-> << <<ModelB>> >>] }

\* Hand-written import texts: not JSON, not an object, no presets array, no
\* valid element, and one valid element among malformed ones.
ImportTexts ==
    { JInvalid,
      JNum(0),
      JObj([version |-> JNum(1)]),
      JObj([presets |-> JArr(<< JNull, JNum(0),
                                JObj([name |-> JNum(1), models |-> JArr(<<>>)]),
                                JObj([name |-> JStr("n1")]) >>)]),
      JObj([presets |-> JArr(<< JNum(0),
                                JObj([name |-> JStr("n4"), description |-> JNum(0),
                                      models |-> JArr(<< JNull,
                                                         JObj([provider |-> JStr("p1")]),
                                                         ModelToJson(ModelA) >>)]) >>)]) }

\* Presets of a file that exists at start; their ids were drawn earlier.
OldIds == {-1, 0}

OldPresetA ==
    [id |-> -1, name |-> "n0", description |-> Undefined, createdAt |-> 0,
     updatedAt |-> 0, models |-> <<ModelB>>]

OldPresetB ==
    [id |-> 0, name |-> "n1", description |-> "d0", createdAt |-> 0,
     updatedAt |-> 0, models |-> <<ModelA>>]

PresetIds == OldIds \cup 1..MaxIds

NothingExported == [json |-> JUndef, presets |-> <<>>]

PresetsIdle ==
    /\ presetsFile = PresetsMissing
    /\ presetsEmpty = <<>>
    /\ presetsNextId = 0
    /\ presetsLast = NoPresetCall
    /\ exported = NothingExported

\* The file at start: none, unreadable, written by this version, or one
\* that carries another version tag.
PresetsInit ==
    /\ presetsFile \in {PresetsMissing, PresetsCorrupt,
                        PresetsJson(1, <<OldPresetA, OldPresetB>>),
                        PresetsJson(2, <<OldPresetA>>)}
    /\ presetsEmpty = <<>>
    /\ presetsNextId = 0
    /\ presetsLast = NoPresetCall
    /\ exported = NothingExported

PresetsSaveStep ==
    \E in \in PresetInputs, writeOk \in BOOLEAN :
        SavePreset(in.name, in.models, in.description, writeOk)

PresetsDeleteStep ==
    \E id \in PresetIds, writeOk \in BOOLEAN : DeletePreset(id, writeOk)

PresetsUpdateStep ==
    \E id \in PresetIds, updates \in PresetUpdates, writeOk \in BOOLEAN :
        UpdatePreset(id, updates, writeOk)

PresetsExportStep ==
    \E ids \in {<<>>} \cup {<<{i}>> : i \in PresetIds} : ExportPresets(ids)

\* importPresets on a hand-written text
PresetsImportTextStep ==
    \E json \in ImportTexts, writeOk \in BOOLEAN : ImportPresets(json, writeOk)

\* importPresets on the string exportPresets returned
PresetsImportExportedStep ==
    \E writeOk \in BOOLEAN :
        /\ exported.json # JUndef
        /\ ImportPresets(exported.json, writeOk)

\* The clock of the preset calls.
PresetsTick == now < MaxPresetsTime /\ Tick


\* ================================================================== paths
\* A string is the sequence of its characters; an absolute path is the
\* sequence of its segments.  Directory names are abbreviated.

StartsWith(str, prefix) ==
    Len(str) >= Len(prefix) /\ SubSeq(str, 1, Len(prefix)) = prefix

\* str.split("/")
RECURSIVE Split(_)
Split(str) ==
    IF \A i \in DOMAIN str : str[i] # "/"
        THEN <<str>>
        ELSE LET k == CHOOSE i \in DOMAIN str :
                          str[i] = "/" /\ \A j \in 1..(i - 1) : str[j] # "/"
             IN  <<SubSeq(str, 1, k - 1)>> \o Split(SubSeq(str, k + 1, Len(str)))

\* The segments of an absolute path after "", "." and ".." are resolved.
RECURSIVE Normalize(_, _)
Normalize(done, rest) ==
    IF rest = <<>> THEN done
    ELSE IF Head(rest) \in {<<>>, <<".">>} THEN Normalize(done, Tail(rest))
    ELSE IF Head(rest) = <<".", ".">>
        THEN Normalize(IF done = <<>> THEN <<>> ELSE SubSeq(done, 1, Len(done) - 1),
                       Tail(rest))
    ELSE Normalize(Append(done, Head(rest)), Tail(rest))

\* path.join(dir, rel) for an absolute dir
PathJoin(dir, rel) == Normalize(<<>>, dir \o Split(rel))

\* path.resolve(dir, rel) for an absolute dir: an absolute rel replaces dir
PathResolve(dir, rel) ==
    IF rel # <<>> /\ rel[1] = "/" THEN Normalize(<<>>, Split(rel))
                                  ELSE PathJoin(dir, rel)

\* path.dirname of an absolute path
PathDirname(path) == IF path = <<>> THEN <<>> ELSE SubSeq(path, 1, Len(path) - 1)

\* The string of an absolute path.
RECURSIVE PathStr(_)
PathStr(path) ==
    IF path = <<>> THEN <<"/">>
    ELSE IF Len(path) = 1 THEN <<"/">> \o path[1]
    ELSE PathStr(SubSeq(path, 1, Len(path) - 1)) \o <<"/">> \o path[Len(path)]

\* path is dir or lies below it
Within(path, dir) ==
    Len(path) >= Len(dir) /\ SubSeq(path, 1, Len(dir)) = dir

\* ================================================================== icon themes
\* IconThemeService

DEFAULT_MUP_THEME_ID == <<"m", "u", "p", "-", "d", "e", "f", "a", "u", "l", "t">>

\* path.join(getMuxHome(), "icon-themes")
IconThemesDir == << <<"h">>, <<"t">> >>

\* The guard of importVsix and getIconFile:
\* resolvedTarget.startsWith(resolvedThemeDir)
PathGuard(target, themeDir) == StartsWith(PathStr(target), PathStr(themeDir))

\* fs.existsSync(path)
ExistsSync(disk, path) ==
    \/ path \in disk.dirs
    \/ \E f \in disk.files : Within(f, path)

IsDirectory(disk, path) ==
    \/ path \in disk.dirs
    \/ \E f \in disk.files : f # path /\ Within(f, path)

\* fs.promises.rm(dir, { recursive: true, force: true })
RmRecursive(disk, dir) ==
    [files |-> {f \in disk.files : ~Within(f, dir)},
     dirs |-> {d \in disk.dirs : ~Within(d, dir)}]

\* fs.promises.mkdir(dir, { recursive: true }) throws when a file is in the way
MkdirFails(disk, dir) ==
    \E i \in 1..Len(dir) : SubSeq(dir, 1, i) \in disk.files

Mkdir(disk, dir) ==
    [files |-> disk.files,
     dirs |-> disk.dirs \cup {SubSeq(dir, 1, i) : i \in Len(IconThemesDir)..Len(dir)}]

\* fs.promises.writeFile(path, content) throws on a directory
WriteFails(disk, path) == path = <<>> \/ IsDirectory(disk, path)

\* getBuiltinThemeDefinition()
BuiltinTheme ==
    [id |-> DEFAULT_MUP_THEME_ID, themeDir |-> <<>>, hasDir |-> FALSE,
     themeJsonPath |-> <<>>, isBuiltin |-> TRUE]

NoIconConfig ==
    [present |-> FALSE, activeThemeId |-> DEFAULT_MUP_THEME_ID, installedThemes |-> <<>>]

\* config.iconThemeConfig ?? { activeThemeId: DEFAULT_MUP_THEME_ID, installedThemes: [] }
IconConfigOrDefault(config) ==
    [present |-> TRUE, activeThemeId |-> config.activeThemeId,
     installedThemes |-> config.installedThemes]

\* A slip that always puts the built-in theme in front.
GetInstalledThemesAlwaysAdds(config) == <<BuiltinTheme>> \o config.installedThemes

\* getInstalledThemes()
GetInstalledThemes(config) ==
    IF \E i \in DOMAIN config.installedThemes :
           config.installedThemes[i].id = DEFAULT_MUP_THEME_ID
        THEN config.installedThemes
        ELSE <<BuiltinTheme>> \o config.installedThemes

\* themes.find / findIndex by id: the index, 0 when there is none
FindTheme(themes, id) ==
    IF \E i \in DOMAIN themes : themes[i].id = id
        THEN CHOOSE i \in DOMAIN themes :
                 themes[i].id = id /\ \A j \in 1..(i - 1) : themes[j].id # id
        ELSE 0

NoIconCall ==
    [op |-> "none", themeId |-> <<>>, ret |-> "none", imported |-> <<>>,
     errors |-> <<>>, written |-> {}, read |-> <<>>, root |-> <<>>, dirs |-> {}]

\* setActiveTheme(themeId)
SetActiveTheme(themeId) ==
    /\ iconConfig' = [IconConfigOrDefault(iconConfig) EXCEPT !.activeThemeId = themeId]
    /\ iconLast' = [NoIconCall EXCEPT !.op = "setActiveTheme", !.themeId = themeId]
    /\ UNCHANGED iconDisk

\* A slip that leaves out the test for the built-in theme id.
DeleteRefusedNever(themeId) == FALSE

\* The first guard of deleteTheme.
DeleteRefused(themeId) == themeId = DEFAULT_MUP_THEME_ID

\* A slip that leaves the deleted theme active.
NewActiveIdKeeps(activeThemeId, themeId) == activeThemeId

\* deleteTheme: the active theme id after themeId was deleted
NewActiveId(activeThemeId, themeId) ==
    IF activeThemeId = themeId THEN DEFAULT_MUP_THEME_ID ELSE activeThemeId

\* deleteTheme(themeId); rmOk = FALSE: removing the directory throws
DeleteTheme(themeId, rmOk) ==
    LET installed == iconConfig.installedThemes
        themeIndex == FindTheme(installed, themeId)
        theme == installed[themeIndex]
        call == [NoIconCall EXCEPT !.op = "deleteTheme", !.themeId = themeId]
    IN  IF DeleteRefused(themeId) \/ themeIndex = 0 \/ theme.isBuiltin
            THEN /\ iconLast' = [call EXCEPT !.ret = "false"]
                 /\ UNCHANGED <<iconConfig, iconDisk>>
            ELSE /\ iconConfig' =
                        [iconConfig EXCEPT
                            !.installedThemes = SubSeq(installed, 1, themeIndex - 1)
                                \o SubSeq(installed, themeIndex + 1, Len(installed)),
                            !.activeThemeId = NewActiveId(@, themeId)]
                 /\ iconDisk' =
                        IF /\ theme.hasDir
                           /\ StartsWith(PathStr(theme.themeDir), PathStr(IconThemesDir))
                           /\ rmOk
                            THEN RmRecursive(iconDisk, theme.themeDir)
                            ELSE iconDisk
                 /\ iconLast' =
                        [call EXCEPT
                            !.ret = "true",
                            !.dirs = IF /\ theme.hasDir
                                        /\ StartsWith(PathStr(theme.themeDir),
                                                      PathStr(IconThemesDir))
                                        /\ rmOk
                                         THEN {theme.themeDir} ELSE {}]


\* `${publisher}.${name}-${themeContrib.id}`
ThemeIdOf(archive, contrib) ==
    archive.publisher \o <<".">> \o archive.name \o <<"-">> \o contrib.id

\* themeContrib.path.replace(/^\.[\/\\]/, "")
StripDotSlash(str) ==
    IF Len(str) >= 2 /\ str[1] = "." /\ str[2] \in {"/", "\\"}
        THEN SubSeq(str, 3, Len(str)) ELSE str

\* The extraction loop of importVsix over the archive entries `entries`;
\* st = [disk, written, failed]; it stops at the first call that throws.
RECURSIVE ExtractEntries(_, _, _, _)
ExtractEntries(st, themeDir, zipPrefix, entries) ==
    IF entries = <<>> \/ st.failed THEN st
    ELSE LET entry == Head(entries)
             relativePath == SubSeq(entry.name, Len(zipPrefix) + 1, Len(entry.name))
             targetPath == PathJoin(themeDir, relativePath)
             targetDir == PathDirname(targetPath)
             skip == \/ entry.dir
                     \/ ~StartsWith(entry.name, zipPrefix)
                     \/ relativePath = <<>>
                     \/ ~PathGuard(targetPath, themeDir)
             st2 == IF skip THEN st
                    ELSE IF MkdirFails(st.disk, targetDir)
                            \/ WriteFails(Mkdir(st.disk, targetDir), targetPath)
                        THEN [st EXCEPT !.failed = TRUE]
                    ELSE [disk |-> [files |-> st.disk.files \cup {targetPath},
                                    dirs |-> Mkdir(st.disk, targetDir).dirs],
                          written |-> st.written
                              \cup {[target |-> targetPath, themeDir |-> themeDir]},
                          failed |-> FALSE]
         IN  ExtractEntries(st2, themeDir, zipPrefix, Tail(entries))

\* A slip that appends without removing the entry of the same id.
RegisterThemeAppends(config, newTheme) ==
    [IconConfigOrDefault(config) EXCEPT !.installedThemes = Append(@, newTheme)]

\* config.editConfig of importVsix: register newTheme, replacing its id
RegisterTheme(config, newTheme) ==
    LET currentConfig == IconConfigOrDefault(config)
    IN  [currentConfig EXCEPT
            !.installedThemes =
                SelectSeq(@, LAMBDA t : t.id # newTheme.id) \o <<newTheme>>]

\* The body of importVsix's loop for one contributed theme;
\* run = [config, disk, imported, errors, written, dirs]; dirs are the
\* directories the loop removed and recreated.
ImportTheme(run, archive, contrib) ==
    LET themeId == ThemeIdOf(archive, contrib)
        themeDir == PathJoin(IconThemesDir, themeId)
        zipPrefix == IF archive.hasExt THEN <<"e", "/">> ELSE <<>>
        cleaned == IF ExistsSync(run.disk, themeDir)
                       THEN RmRecursive(run.disk, themeDir) ELSE run.disk
        extracted == ExtractEntries([disk |-> Mkdir(cleaned, themeDir),
                                     written |-> run.written, failed |-> FALSE],
                                    themeDir, zipPrefix, archive.entries)
        themeJsonPath == StripDotSlash(contrib.path)
        newTheme == [id |-> themeId, themeDir |-> themeDir, hasDir |-> TRUE,
                     themeJsonPath |-> themeJsonPath, isBuiltin |-> FALSE]
    IN  IF MkdirFails(cleaned, themeDir)
            THEN [run EXCEPT !.disk = cleaned, !.dirs = @ \cup {themeDir},
                             !.errors = Append(@, <<"failed", contrib.id>>)]
        ELSE IF extracted.failed
            THEN [run EXCEPT !.disk = extracted.disk, !.written = extracted.written,
                             !.dirs = @ \cup {themeDir},
                             !.errors = Append(@, <<"failed", contrib.id>>)]
        ELSE IF ~ExistsSync(extracted.disk, PathJoin(themeDir, themeJsonPath))
            THEN [run EXCEPT !.disk = extracted.disk, !.written = extracted.written,
                             !.dirs = @ \cup {themeDir},
                             !.errors = Append(@, <<"json-missing", contrib.id>>)]
        ELSE [config |-> RegisterTheme(run.config, newTheme),
              disk |-> extracted.disk,
              imported |-> Append(run.imported, themeId),
              errors |-> run.errors,
              written |-> extracted.written,
              dirs |-> run.dirs \cup {themeDir}]

RECURSIVE ImportThemes(_, _, _)
ImportThemes(run, archive, contribs) ==
    IF contribs = <<>> THEN run
    ELSE ImportThemes(ImportTheme(run, archive, Head(contribs)), archive, Tail(contribs))

\* importVsix(vsixBase64), on the archive the string decodes to
ImportVsix(archive) ==
    LET call == [NoIconCall EXCEPT !.op = "importVsix", !.ret = "done"]
        start == [config |-> iconConfig, disk |-> iconDisk, imported |-> <<>>,
                  errors |-> <<>>, written |-> {}, dirs |-> {}]
        run == ImportThemes(start, archive, archive.contribs)
    IN  IF ~archive.loads \/ ((archive.hasExt \/ archive.hasRoot) /\ ~archive.parses)
            THEN /\ iconLast' = [call EXCEPT !.errors = << <<"parse", <<>> >> >>]
                 /\ UNCHANGED <<iconConfig, iconDisk>>
        ELSE IF ~archive.hasExt /\ ~archive.hasRoot
            THEN /\ iconLast' = [call EXCEPT !.errors = << <<"no-package", <<>> >> >>]
                 /\ UNCHANGED <<iconConfig, iconDisk>>
        ELSE IF archive.contribs = <<>>
            THEN /\ iconLast' = [call EXCEPT !.errors = << <<"no-themes", <<>> >> >>]
                 /\ UNCHANGED <<iconConfig, iconDisk>>
        ELSE /\ iconConfig' = run.config
             /\ iconDisk' = run.disk
             /\ iconLast' = [call EXCEPT !.imported = run.imported,
                                         !.errors = run.errors,
                                         !.written = run.written,
                                         !.dirs = run.dirs]

\* getIconFile(themeId, iconPath)
GetIconFile(themeId, iconPath) ==
    LET themes == GetInstalledThemes(iconConfig)
        index == FindTheme(themes, themeId)
        theme == themes[index]
        fullPath == PathResolve(theme.themeDir, iconPath)
        call == [NoIconCall EXCEPT !.op = "getIconFile", !.themeId = themeId]
    IN  /\ UNCHANGED <<iconConfig, iconDisk>>
        /\ iconLast' =
              IF index = 0 \/ ~theme.hasDir THEN [call EXCEPT !.ret = "null"]
              ELSE IF ~PathGuard(fullPath, theme.themeDir)
                  THEN [call EXCEPT !.ret = "null"]
              ELSE IF ~ExistsSync(iconDisk, fullPath) THEN [call EXCEPT !.ret = "null"]
              ELSE IF IsDirectory(iconDisk, fullPath)
                  THEN [call EXCEPT !.ret = "rejected"]
              ELSE [call EXCEPT !.ret = "data", !.read = fullPath,
                                !.root = theme.themeDir]

\* ------------------------------------------------------------------ icon themes: inputs

ThemeA == <<"p", ".", "n", "-", "a">>
ThemeAB == <<"p", ".", "n", "-", "a", "b">>

File(name) == [name |-> name, dir |-> FALSE]

Archive(loads, hasExt, hasRoot, parses, contribs, entries) ==
    [loads |-> loads, hasExt |-> hasExt, hasRoot |-> hasRoot, parses |-> parses,
     publisher |-> <<"p">>, name |-> <<"n">>, contribs |-> contribs,
     entries |-> entries]

\* The archives importVsix is called with.  "e/" stands for "extension/",
\* "p" for package.json, "i", "j" and "k" for theme manifests.
Archives ==
    { \* theme a under extension/, with a directory entry, an entry outside the
      \* prefix, an entry that climbs out of the icon-themes root and an entry
      \* into the directory of theme ab
      Archive(TRUE, TRUE, FALSE, TRUE,
              << [id |-> <<"a">>, path |-> <<".", "/", "i">>] >>,
              << File(<<"e", "/", "p">>), File(<<"e", "/", "i">>),
                 [name |-> <<"e", "/", "d", "/">>, dir |-> TRUE],
                 File(<<"x">>),
                 File(<<"e", "/", ".", ".", "/", ".", ".", "/", "v">>),
                 File(<<"e", "/", ".", ".", "/">> \o ThemeAB \o <<"/", "s">>) >>),
      \* theme ab at the archive root
      Archive(TRUE, FALSE, TRUE, TRUE,
              << [id |-> <<"a", "b">>, path |-> <<"i">>] >>,
              << File(<<"p">>), File(<<"i">>) >>),
      \* themes a and ab; the manifest of ab is not in the archive
      Archive(TRUE, TRUE, FALSE, TRUE,
              << [id |-> <<"a">>, path |-> <<"j">>],
                 [id |-> <<"a", "b">>, path |-> <<"k">>] >>,
              << File(<<"e", "/", "p">>), File(<<"e", "/", "j">>) >>),
      \* not a zip; no package.json; package.json is not JSON; no icon themes
      Archive(FALSE, FALSE, FALSE, FALSE, <<>>, <<>>),
      Archive(TRUE, FALSE, FALSE, FALSE, <<>>, << File(<<"i">>) >>),
      Archive(TRUE, FALSE, TRUE, FALSE, <<>>, << File(<<"p">>) >>),
      Archive(TRUE, FALSE, TRUE, TRUE, <<>>, << File(<<"p">>) >>) }

IconThemeIds == {DEFAULT_MUP_THEME_ID, ThemeA, ThemeAB}

\* The icon paths getIconFile is called with: a file of the theme, a file
\* of the sibling theme ab, a file outside the icon-themes root (relative
\* and absolute), the theme directory itself.
IconPaths ==
    { <<"i">>,
      <<".", ".", "/">> \o ThemeAB \o <<"/", "i">>,
      <<".", ".", "/", ".", ".", "/", "v">>,
      <<"/", "h", "/", "v">>,
      <<".">> }

IconIdle ==
    /\ iconConfig = NoIconConfig
    /\ iconDisk = [files |-> { << <<"h">>, <<"v">> >> }, dirs |-> {IconThemesDir}]
    /\ iconLast = NoIconCall

\* An entry of the config file that carries the built-in id without the
\* isBuiltin mark.
UnmarkedDefaultTheme ==
    [BuiltinTheme EXCEPT !.isBuiltin = FALSE, !.hasDir = TRUE,
                         !.themeDir = Append(IconThemesDir, DEFAULT_MUP_THEME_ID),
                         !.themeJsonPath = <<"i">>]

\* The config at start: no iconThemeConfig, an empty one, one that lists
\* the built-in theme, one that lists the built-in id as an ordinary theme
\* and has it active.
IconInit ==
    /\ iconConfig \in
          { NoIconConfig,
            [NoIconConfig EXCEPT !.present = TRUE],
            [NoIconConfig EXCEPT !.present = TRUE,
                                 !.installedThemes = <<BuiltinTheme>>],
            [NoIconConfig EXCEPT !.present = TRUE,
                                 !.installedThemes = <<UnmarkedDefaultTheme>>] }
    /\ iconDisk = [files |-> { << <<"h">>, <<"v">> >> }, dirs |-> {IconThemesDir}]
    /\ iconLast = NoIconCall

IconSetActiveStep == \E id \in IconThemeIds : SetActiveTheme(id)

IconDeleteStep == \E id \in IconThemeIds, rmOk \in BOOLEAN : DeleteTheme(id, rmOk)

IconImportStep == \E archive \in Archives : ImportVsix(archive)

IconGetFileStep ==
    \E id \in IconThemeIds, iconPath \in IconPaths : GetIconFile(id, iconPath)

\* Archives whose package.json is written by an attacker: each holds
\* package.json and the manifest "i" at its root and contributes one theme.
ManifestArchive(publisher, name, id) ==
    [loads |-> TRUE, hasExt |-> FALSE, hasRoot |-> TRUE, parses |-> TRUE,
     publisher |-> publisher, name |-> name,
     contribs |-> << [id |-> id, path |-> <<"i">>] >>,
     entries |-> << File(<<"p">>), File(<<"i">>) >>]

\* an ordinary theme; a contributed id that resolves to the icon-themes root,
\* to the file v next to it, and to the sibling directory tx; a publisher
\* that climbs out of the root
ManifestArchives ==
    { ManifestArchive(<<"p">>, <<"n">>, <<"a">>),
      ManifestArchive(<<"p">>, <<"n">>, <<"a", "/", ".", ".">>),
      ManifestArchive(<<"p">>, <<"n">>, <<"a", "/", ".", ".", "/", ".", ".", "/", "v">>),
      ManifestArchive(<<"p">>, <<"n">>, <<"a", "/", ".", ".", "/", ".", ".", "/", "t", "x">>),
      ManifestArchive(<<".", ".", "/", "x", "/">>, <<"n">>, <<"a">>) }

ManifestThemeIds ==
    {ThemeIdOf(archive, archive.contribs[1]) : archive \in ManifestArchives}

\* The disk at start: the icon-themes root, the file v and the directory tx
\* with a file next to it.
ManifestInit ==
    /\ iconConfig = NoIconConfig
    /\ iconDisk = [files |-> { << <<"h">>, <<"v">> >>, << <<"h">>, <<"t", "x">>, <<"s">> >> },
                   dirs |-> {IconThemesDir, << <<"h">>, <<"t", "x">> >>}]
    /\ iconLast = NoIconCall

ManifestImportStep == \E archive \in ManifestArchives : ImportVsix(archive)

ManifestDeleteStep ==
    \E id \in ManifestThemeIds, rmOk \in BOOLEAN : DeleteTheme(id, rmOk)


\* ================================================================== model health
\* ModelHealthService

\* A number of CustomModelMetadata, or undefined.
Unset == [set |-> FALSE, v |-> 0]

Num(v) == [set |-> TRUE, v |-> v]

\* The truthiness of an optional number.
Truthy(x) == x.set /\ x.v # 0

NoMetadata ==
    [maxInputTokens |-> Unset, maxOutputTokens |-> Unset,
     inputCostPerToken |-> Unset, outputCostPerToken |-> Unset]

\* @/common/constants/providers
SUPPORTED_PROVIDERS == { <<"a">> }

\* @/common/constants/knownModels, keyed by `${provider}:${id}`
KNOWN_MODELS ==
    (<<"a", ":", "m">> :> [id |-> <<"a", ":", "m">>, provider |-> <<"a">>,
                           aliases |-> { <<"l">> }])

\* new URL(url) does not throw
ValidUrl(url) == url \in {"http://h"}

NullProviderConfig ==
    [isNull |-> TRUE, apiKey |-> Undefined, baseUrl |-> Undefined, baseURL |-> Undefined]

ProviderConfig(apiKey, baseUrl, baseURL) ==
    [isNull |-> FALSE, apiKey |-> apiKey, baseUrl |-> baseUrl, baseURL |-> baseURL]

\* loadProviderConfig(provider)
LoadProviderConfig(file, provider) ==
    IF file.kind # "json" THEN NullProviderConfig
    ELSE IF provider \notin DOMAIN file.sections THEN NullProviderConfig
    ELSE file.sections[provider]

Check(status, message) == [status |-> status, message |-> message]

\* checkAuthentication(provider); creds is what resolveProviderCredentials
\* does with the section and the environment: it reports the credentials
\* as configured or as missing, or it throws
CheckAuthentication(file, provider, creds) ==
    LET rawConfig == LoadProviderConfig(file, provider)
        hasKey == rawConfig.apiKey # Undefined /\ rawConfig.apiKey # ""
    IN  IF rawConfig.isNull THEN Check("warn", "No provider config found")
        ELSE IF provider \notin SUPPORTED_PROVIDERS
            THEN IF hasKey THEN Check("pass", "API key present (custom provider)")
                           ELSE Check("warn", "No API key found for custom provider")
        ELSE IF creds = "throws" THEN Check("fail", "Error checking authentication")
        ELSE IF creds = "configured" THEN Check("pass", "Credentials configured")
        ELSE Check("fail", "Missing credentials")

\* `${provider}:${modelId}`
FullId(provider, modelId) == provider \o <<":">> \o modelId

\* checkModelExists(provider, modelId)
CheckModelExists(provider, modelId) ==
    IF FullId(provider, modelId) \in DOMAIN KNOWN_MODELS
        THEN Check("pass", "Built-in model recognized")
    ELSE IF \E k \in DOMAIN KNOWN_MODELS :
                KNOWN_MODELS[k].provider = provider /\ modelId \in KNOWN_MODELS[k].aliases
        THEN Check("pass", "Known model (alias)")
    ELSE Check("warn", "Custom model - not in built-in registry")

\* checkTokenLimits(customMetadata)
CheckTokenLimits(customMetadata) ==
    LET maxInputTokens == customMetadata.maxInputTokens
        maxOutputTokens == customMetadata.maxOutputTokens
        warnings ==
            (IF Truthy(maxInputTokens) /\ maxInputTokens.v < 1000
                 THEN {"input low"} ELSE {})
            \cup (IF Truthy(maxOutputTokens) /\ maxOutputTokens.v < 100
                 THEN {"output low"} ELSE {})
            \cup (IF /\ Truthy(maxInputTokens)
                     /\ Truthy(maxOutputTokens)
                     /\ maxOutputTokens.v > maxInputTokens.v
                 THEN {"output exceeds input"} ELSE {})
    IN  IF ~Truthy(maxInputTokens) /\ ~Truthy(maxOutputTokens)
            THEN Check("skip", "No custom token limits configured")
        ELSE IF warnings # {}
            THEN Check("warn", "Token limit configuration may need review")
        ELSE Check("pass", "Token limits look reasonable")

\* checkPricing(customMetadata)
CheckPricing(customMetadata) ==
    LET inputCostPerToken == customMetadata.inputCostPerToken
        outputCostPerToken == customMetadata.outputCostPerToken
        warnings ==
            (IF Truthy(inputCostPerToken) /\ inputCostPerToken.v < 0
                 THEN {"input negative"} ELSE {})
            \cup (IF Truthy(outputCostPerToken) /\ outputCostPerToken.v < 0
                 THEN {"output negative"} ELSE {})
            \cup (IF /\ Truthy(inputCostPerToken)
                     /\ Truthy(outputCostPerToken)
                     /\ inputCostPerToken.v > outputCostPerToken.v
                 THEN {"input exceeds output"} ELSE {})
    IN  IF ~Truthy(inputCostPerToken) /\ ~Truthy(outputCostPerToken)
            THEN Check("skip", "No custom pricing configured")
        ELSE IF warnings # {}
            THEN Check("warn", "Pricing configuration may need review")
        ELSE Check("pass", "Pricing looks reasonable")

\* checkConnectivity(provider)
CheckConnectivity(file, provider) ==
    LET rawConfig == LoadProviderConfig(file, provider)
        given(x) == x # Undefined /\ x # ""
        url == IF rawConfig.baseUrl # Undefined THEN rawConfig.baseUrl
               ELSE IF rawConfig.baseURL # Undefined THEN rawConfig.baseURL
               ELSE ""
    IN  IF rawConfig.isNull
            THEN Check("skip", "No provider config - skipping connectivity")
        ELSE IF given(rawConfig.baseUrl) \/ given(rawConfig.baseURL)
            THEN IF ValidUrl(url) THEN Check("pass", "Custom base URL configured")
                                  ELSE Check("fail", "Invalid base URL")
        ELSE Check("pass", "Using default provider endpoint")

\* A slip that looks for a warning before it looks for a failure.
OverallStatusWarnFirst(statuses) ==
    IF \E i \in DOMAIN statuses : statuses[i] = "warn" THEN "warning"
    ELSE IF \E i \in DOMAIN statuses : statuses[i] = "fail" THEN "error"
    ELSE "healthy"

\* The overall status checkModel derives from the statuses of the checks.
OverallStatus(statuses) ==
    IF \E i \in DOMAIN statuses : statuses[i] = "fail" THEN "error"
    ELSE IF \E i \in DOMAIN statuses : statuses[i] = "warn" THEN "warning"
    ELSE "healthy"

\* The result checkModel builds.
HealthCheckResult(file, provider, modelId, customMetadata, creds, at) ==
    LET authentication == CheckAuthentication(file, provider, creds)
        modelExists == CheckModelExists(provider, modelId)
        tokenLimits == CheckTokenLimits(customMetadata)
        pricing == CheckPricing(customMetadata)
        connectivity == CheckConnectivity(file, provider)
    IN  [modelId |-> modelId,
         provider |-> provider,
         timestamp |-> at,
         status |-> OverallStatus(<<authentication.status, modelExists.status,
                                    tokenLimits.status, pricing.status,
                                    connectivity.status>>),
         checks |-> [authentication |-> authentication, modelExists |-> modelExists,
                     tokenLimits |-> tokenLimits, pricing |-> pricing,
                     connectivity |-> connectivity]]

\* checkModel(provider, modelId, customMetadata)
CheckModel(provider, modelId, customMetadata) ==
    LET key == FullId(provider, modelId)
        result == HealthCheckResult(providersFile, provider, modelId,
                                    customMetadata, credentials, now)
    IN  /\ key \in DOMAIN healthCache \/ Cardinality(DOMAIN healthCache) < MaxCached
        /\ healthCache' = (key :> result) @@ healthCache
        /\ UNCHANGED <<providersFile, credentials, ruleCheck>>

\* getLastResults()
GetLastResults == {healthCache[k] : k \in DOMAIN healthCache}

\* ------------------------------------------------------------------ model health: inputs

HealthProviders == { <<"a">>, <<"c">> }

HealthModelIds == { <<"m">>, <<"l">>, <<"x">> }

TokenMetadata(maxIn, maxOut) ==
    [NoMetadata EXCEPT !.maxInputTokens = maxIn, !.maxOutputTokens = maxOut]

PriceMetadata(costIn, costOut) ==
    [NoMetadata EXCEPT !.inputCostPerToken = costIn, !.outputCostPerToken = costOut]

TokenValues == {Unset, Num(0), Num(50), Num(2000), Num(3000)}

PriceValues == {Unset, Num(0), Num(-1), Num(1), Num(2)}

\* Metadata with token limits only, with prices only, and with both.
Metadatas ==
    {TokenMetadata(i, o) : i \in TokenValues, o \in TokenValues}
    \cup {PriceMetadata(i, o) : i \in PriceValues, o \in PriceValues}
    \cup {[maxInputTokens |-> Num(2000), maxOutputTokens |-> Num(50),
           inputCostPerToken |-> Num(2), outputCostPerToken |-> Num(1)]}

ProvidersJson(sections) == [kind |-> "json", sections |-> sections]

\* providers.jsonc: missing, not JSON, or with sections for the providers
ProvidersFiles ==
    { [kind |-> "missing", sections |-> EmptyFcn],
      [kind |-> "corrupt", sections |-> EmptyFcn],
      ProvidersJson(<<"a">> :> ProviderConfig("k", Undefined, Undefined)),
      ProvidersJson((<<"a">> :> ProviderConfig(Undefined, "http://h", Undefined))
                    @@ (<<"c">> :> ProviderConfig("k", Undefined, "bad"))),
      ProvidersJson((<<"a">> :> ProviderConfig("k", "", "http://h"))
                    @@ (<<"c">> :> ProviderConfig("", Undefined, Undefined))) }

NoRuleCheck == [customMetadata |-> NoMetadata, tokenLimits |-> <<>>, pricing |-> <<>>]

HealthIdle ==
    /\ providersFile = [kind |-> "missing", sections |-> EmptyFcn]
    /\ credentials = "missing"
    /\ healthCache = EmptyFcn
    /\ ruleCheck = NoRuleCheck

HealthInit ==
    /\ providersFile \in ProvidersFiles
    /\ credentials \in {"configured", "missing", "throws"}
    /\ healthCache = EmptyFcn
    /\ ruleCheck = NoRuleCheck

HealthCheckStep ==
    \E provider \in HealthProviders, modelId \in HealthModelIds,
       customMetadata \in Metadatas :
        CheckModel(provider, modelId, customMetadata)

\* Every combination of the token limits and the prices.
AllMetadatas ==
    {[maxInputTokens |-> i, maxOutputTokens |-> o,
      inputCostPerToken |-> ci, outputCostPerToken |-> co] :
        i \in TokenValues, o \in TokenValues, ci \in PriceValues, co \in PriceValues}

\* The two rule checks on their own, on a customMetadata fixed at start.
HealthRulesInit ==
    /\ providersFile = [kind |-> "missing", sections |-> EmptyFcn]
    /\ credentials = "missing"
    /\ healthCache = EmptyFcn
    /\ ruleCheck \in {[NoRuleCheck EXCEPT !.customMetadata = m] : m \in AllMetadatas}

CheckTokenLimitsStep ==
    /\ ruleCheck' = [ruleCheck EXCEPT
                        !.tokenLimits = <<CheckTokenLimits(ruleCheck.customMetadata)>>]
    /\ UNCHANGED <<providersFile, credentials, healthCache>>

CheckPricingStep ==
    /\ ruleCheck' = [ruleCheck EXCEPT
                        !.pricing = <<CheckPricing(ruleCheck.customMetadata)>>]
    /\ UNCHANGED <<providersFile, credentials, healthCache>>

\* ================================================================== store writes
\* The steps of one savePreset or recordCost call between its awaits, for two
\* calls in flight on each store, and a crash of the process.
\*   "readFile"        fs.readFile is pending
\*   "mkdir"           the call has read, changed its data and awaits fs.mkdir
\*   "writeFileAtomic" the text is stringified and sits in the temporary file
\*   "done", "rejected", "crashed"

CallIds == {1, 2}

InFlight(call) == call.pc \in {"readFile", "mkdir", "writeFileAtomic"}

\* fs.writeFile on the path itself: the file is truncated while it is written
WriteInPlace(target, truncated) == truncated

\* write-file-atomic, before its rename: the text goes to a temporary file
\* next to the target, which stays as it is
WriteTmpFile(target, truncated) == target

NoSaveCall ==
    [pc |-> "idle", in |-> [name |-> Undefined, description |-> Undefined, models |-> <<>>],
     file |-> [version |-> 1, presets |-> <<>>, shared |-> FALSE],
     preset |-> <<>>, text |-> JUndef, read |-> <<>>, writesSeen |-> 0]

NoRecordCall ==
    [pc |-> "idle", entry |-> <<>>,
     data |-> [entries |-> <<>>, dailySummaries |-> EmptyFcn, shared |-> FALSE],
     text |-> CostMissing, read |-> [entries |-> <<>>, dailySummaries |-> EmptyFcn],
     writesSeen |-> 0]

NoWrites == [presets |-> <<>>, cost |-> <<>>]

NoCrash ==
    \A c \in CallIds : presetsInFlight[c].pc # "crashed" /\ costInFlight[c].pc # "crashed"

\* savePreset(name, models, description) is called: readFile() starts
SavePresetCall(c, in) ==
    /\ NoCrash
    /\ presetsInFlight[c].pc = "idle"
    /\ presetsInFlight' = [presetsInFlight EXCEPT ![c] = [NoSaveCall EXCEPT !.pc = "readFile", !.in = in]]
    /\ UNCHANGED <<now, presetsFile, presetsEmpty, presetsNextId, writeOrder>>

\* readFile() resolves; the preset is built and pushed; writeFile() starts
SavePresetRead(c) ==
    LET call == presetsInFlight[c]
        file == PresetsReadFile(presetsFile, presetsEmpty)
        preset == NewPreset(RandomUUID(presetsNextId, 1), call.in.name, call.in.models,
                            call.in.description, now)
    IN  /\ NoCrash
        /\ call.pc = "readFile"
        /\ presetsNextId' = presetsNextId + 1
        /\ presetsEmpty' = IF file.shared THEN Append(presetsEmpty, preset) ELSE presetsEmpty
        /\ presetsInFlight' =
               [presetsInFlight EXCEPT ![c] =
                   [call EXCEPT !.pc = "mkdir",
                                !.file = [version |-> file.version,
                                          presets |-> IF file.shared THEN <<>>
                                                      ELSE Append(file.presets, preset),
                                          shared |-> file.shared],
                                !.preset = <<preset>>,
                                !.read = file.presets,
                                !.writesSeen = Len(writeOrder.presets)]]
        /\ UNCHANGED <<now, presetsFile, writeOrder>>

\* the presets array the call's file object refers to
PresetsOf(call) == IF call.file.shared THEN presetsEmpty ELSE call.file.presets

\* fs.mkdir resolves or rejects; JSON.stringify(data) is evaluated and
\* writeFileAtomic writes its temporary file
SavePresetStringify(c, mkdirOk) ==
    LET call == presetsInFlight[c]
        text == PresetsToJson(call.file.version, PresetsOf(call))
    IN  /\ NoCrash
        /\ call.pc = "mkdir"
        /\ presetsInFlight' =
               [presetsInFlight EXCEPT ![c] =
                   IF mkdirOk THEN [call EXCEPT !.pc = "writeFileAtomic", !.text = text]
                              ELSE [call EXCEPT !.pc = "rejected"]]
        /\ presetsFile' = IF mkdirOk THEN WriteTmpFile(presetsFile, PresetsCorrupt)
                                     ELSE presetsFile
        /\ UNCHANGED <<now, presetsEmpty, presetsNextId, writeOrder>>

\* writeFileAtomic renames the temporary file onto the path, or rejects
SavePresetWrite(c, writeOk) ==
    LET call == presetsInFlight[c]
    IN  /\ NoCrash
        /\ call.pc = "writeFileAtomic"
        /\ presetsInFlight' =
               [presetsInFlight EXCEPT ![c] =
                   [call EXCEPT !.pc = IF writeOk THEN "done" ELSE "rejected"]]
        /\ presetsFile' = IF writeOk THEN [kind |-> "json", json |-> call.text]
                                     ELSE presetsFile
        /\ writeOrder' = IF writeOk THEN [writeOrder EXCEPT !.presets = Append(@, c)]
                                    ELSE writeOrder
        /\ UNCHANGED <<now, presetsEmpty, presetsNextId>>

\* recordCost(entry) is called: read() starts
RecordCostCall(c, entry) ==
    /\ NoCrash
    /\ costInFlight[c].pc = "idle"
    /\ costInFlight' = [costInFlight EXCEPT ![c] = [NoRecordCall EXCEPT !.pc = "readFile", !.entry = <<entry>>]]
    /\ UNCHANGED <<now, costFile, costEmpty, writeOrder>>

\* read() resolves; the entry is pushed and the summary updated; write() starts
RecordCostRead(c) ==
    LET call == costInFlight[c]
        entry == call.entry[1]
        data == CostRead(costFile, costEmpty)
    IN  /\ NoCrash
        /\ call.pc = "readFile"
        /\ costEmpty' = IF data.shared
                            THEN [entries |-> Append(costEmpty.entries, entry),
                                  dailySummaries |-> AddToSummaries(costEmpty.dailySummaries, entry)]
                            ELSE costEmpty
        /\ costInFlight' =
               [costInFlight EXCEPT ![c] =
                   [call EXCEPT !.pc = "mkdir",
                                !.data = IF data.shared
                                             THEN [entries |-> <<>>, dailySummaries |-> EmptyFcn,
                                                   shared |-> TRUE]
                                             ELSE [entries |-> Append(data.entries, entry),
                                                   dailySummaries |->
                                                       AddToSummaries(data.dailySummaries, entry),
                                                   shared |-> FALSE],
                                !.read = [entries |-> data.entries,
                                          dailySummaries |-> data.dailySummaries],
                                !.writesSeen = Len(writeOrder.cost)]]
        /\ UNCHANGED <<now, costFile, writeOrder>>

\* the arrays and objects the call's data refers to
CostDataOf(call) == IF call.data.shared THEN costEmpty ELSE call.data

RecordCostStringify(c, mkdirOk) ==
    LET call == costInFlight[c]
        data == CostDataOf(call)
        text == CostFileOf("json", 1, data.entries, data.dailySummaries)
    IN  /\ NoCrash
        /\ call.pc = "mkdir"
        /\ costInFlight' =
               [costInFlight EXCEPT ![c] =
                   IF mkdirOk THEN [call EXCEPT !.pc = "writeFileAtomic", !.text = text]
                              ELSE [call EXCEPT !.pc = "rejected"]]
        /\ costFile' = IF mkdirOk THEN WriteTmpFile(costFile, CostCorrupt) ELSE costFile
        /\ UNCHANGED <<now, costEmpty, writeOrder>>

RecordCostWrite(c, writeOk) ==
    LET call == costInFlight[c]
    IN  /\ NoCrash
        /\ call.pc = "writeFileAtomic"
        /\ costInFlight' =
               [costInFlight EXCEPT ![c] =
                   [call EXCEPT !.pc = IF writeOk THEN "done" ELSE "rejected"]]
        /\ costFile' = IF writeOk THEN call.text ELSE costFile
        /\ writeOrder' = IF writeOk THEN [writeOrder EXCEPT !.cost = Append(@, c)]
                                    ELSE writeOrder
        /\ UNCHANGED <<now, costEmpty>>

\* the process dies: no call in flight gets any further, the disk stays
Crash ==
    /\ NoCrash
    /\ \E c \in CallIds : InFlight(presetsInFlight[c]) \/ InFlight(costInFlight[c])
    /\ presetsInFlight' = [c \in CallIds |->
                              IF InFlight(presetsInFlight[c])
                                  THEN [presetsInFlight[c] EXCEPT !.pc = "crashed"]
                                  ELSE presetsInFlight[c]]
    /\ costInFlight' = [c \in CallIds |->
                           IF InFlight(costInFlight[c])
                               THEN [costInFlight[c] EXCEPT !.pc = "crashed"]
                               ELSE costInFlight[c]]
    /\ UNCHANGED <<now, presetsFile, presetsEmpty, presetsNextId, costFile, costEmpty,
                   writeOrder>>

\* what each of the two calls is called with
SaveInputOf(c) == CHOOSE in \in PresetInputs : in.name = (IF c = 1 THEN "n1" ELSE "n2")

CostEntryOf(c) ==
    MakeEntry(1, CHOOSE s \in CostShapes : s.model = (IF c = 1 THEN "m1" ELSE "m2"))

OldCostFile ==
    LET e == MakeEntry(0, CHOOSE s \in CostShapes : s.model = "m2")
    IN  CostFileOf("json", 1, <<e>>, AddToSummaries(EmptyFcn, e))

NoDeleteCall == [pc |-> "idle", themeId |-> <<>>, themeIndex |-> 0, theme |-> BuiltinTheme]

WritesIdle ==
    /\ presetsInFlight = [c \in CallIds |-> NoSaveCall]
    /\ costInFlight = [c \in CallIds |-> NoRecordCall]
    /\ writeOrder = NoWrites
    /\ iconInFlight = [c \in CallIds |-> NoDeleteCall]

\* the files at start: none yet, or written by this version
WritesInit ==
    /\ WritesIdle
    /\ presetsFile \in {PresetsMissing, PresetsJson(1, <<OldPresetA>>)}
    /\ presetsEmpty = <<>>
    /\ presetsNextId = 0
    /\ presetsLast = NoPresetCall
    /\ exported = NothingExported
    /\ costFile \in {CostMissing, OldCostFile}
    /\ costEmpty = [entries |-> <<>>, dailySummaries |-> EmptyFcn]
    /\ costLast = NoCall
    /\ costRun = NoRun
    /\ costCalls = 0

SavePresetCallStep == \E c \in CallIds : SavePresetCall(c, SaveInputOf(c))

SavePresetReadStep == \E c \in CallIds : SavePresetRead(c)

SavePresetStringifyStep == \E c \in CallIds, mkdirOk \in BOOLEAN : SavePresetStringify(c, mkdirOk)

SavePresetWriteStep == \E c \in CallIds, writeOk \in BOOLEAN : SavePresetWrite(c, writeOk)

RecordCostCallStep == \E c \in CallIds : RecordCostCall(c, CostEntryOf(c))

RecordCostReadStep == \E c \in CallIds : RecordCostRead(c)

RecordCostStringifyStep == \E c \in CallIds, mkdirOk \in BOOLEAN : RecordCostStringify(c, mkdirOk)

RecordCostWriteStep == \E c \in CallIds, writeOk \in BOOLEAN : RecordCostWrite(c, writeOk)

\* ------------------------------------------------------------------ overlapping deleteTheme calls
\* The steps of deleteTheme between its awaits:
\*   "editConfig"  the call has read the config and awaits config.editConfig
\*   "rm"          the config is edited; the call removes the directory

\* deleteTheme(themeId) up to its call of editConfig
DeleteThemeRead(c, themeId) ==
    LET installed == iconConfig.installedThemes
        themeIndex == FindTheme(installed, themeId)
        theme == installed[themeIndex]
        call == [NoIconCall EXCEPT !.op = "deleteTheme", !.themeId = themeId]
    IN  /\ iconInFlight[c].pc = "idle"
        /\ IF DeleteRefused(themeId) \/ themeIndex = 0 \/ theme.isBuiltin
               THEN /\ iconLast' = [call EXCEPT !.ret = "false"]
                    /\ UNCHANGED iconInFlight
               ELSE /\ iconInFlight' =
                           [iconInFlight EXCEPT ![c] =
                               [pc |-> "editConfig", themeId |-> themeId,
                                themeIndex |-> themeIndex, theme |-> theme]]
                    /\ UNCHANGED iconLast
        /\ UNCHANGED <<iconConfig, iconDisk>>

\* newInstalled.splice(themeIndex, 1) on a copy of the list
Splice(list, index) ==
    IF index \in DOMAIN list THEN RemoveAt(list, index) ELSE list

\* For comparison: the edit that removes the entry by its id.
EditedWithoutThemeById(config, call) ==
    IF ~config.present THEN config
    ELSE [config EXCEPT
             !.installedThemes = SelectSeq(@, LAMBDA t : t.id # call.themeId),
             !.activeThemeId = NewActiveId(@, call.themeId)]

\* The callback deleteTheme hands to editConfig, on the config it is given.
EditedWithoutTheme(config, call) ==
    IF ~config.present THEN config
    ELSE [config EXCEPT
             !.installedThemes = Splice(@, call.themeIndex),
             !.activeThemeId = NewActiveId(@, call.themeId)]

\* config.editConfig runs the callback of the call on the current config
DeleteThemeEdit(c) ==
    /\ iconInFlight[c].pc = "editConfig"
    /\ iconConfig' = EditedWithoutTheme(iconConfig, iconInFlight[c])
    /\ iconInFlight' = [iconInFlight EXCEPT ![c].pc = "rm"]
    /\ UNCHANGED <<iconDisk, iconLast>>

\* the directory of the theme the call read is removed; the call returns true
DeleteThemeRm(c, rmOk) ==
    LET call == iconInFlight[c]
        removes == /\ call.theme.hasDir
                   /\ StartsWith(PathStr(call.theme.themeDir), PathStr(IconThemesDir))
                   /\ rmOk
    IN  /\ call.pc = "rm"
        /\ iconDisk' = IF removes THEN RmRecursive(iconDisk, call.theme.themeDir)
                                  ELSE iconDisk
        /\ iconLast' = [NoIconCall EXCEPT !.op = "deleteTheme", !.themeId = call.themeId,
                                          !.ret = "true",
                                          !.dirs = IF removes THEN {call.theme.themeDir}
                                                              ELSE {}]
        /\ iconInFlight' = [iconInFlight EXCEPT ![c] = NoDeleteCall]
        /\ UNCHANGED iconConfig

\* the archives imported next to the deleteTheme calls: theme ab alone, and
\* themes a and ab of which ab fails
OverlapArchives ==
    {archive \in Archives :
        \/ Len(archive.contribs) = 2
        \/ archive.hasRoot /\ archive.contribs # <<>>}

DeleteThemeReadStep ==
    \E c \in CallIds, id \in IconThemeIds : DeleteThemeRead(c, id)

DeleteThemeEditStep == \E c \in CallIds : DeleteThemeEdit(c)

DeleteThemeRmStep == \E c \in CallIds, rmOk \in BOOLEAN : DeleteThemeRm(c, rmOk)

OverlapImportStep ==
    /\ \E archive \in OverlapArchives : ImportVsix(archive)
    /\ UNCHANGED iconInFlight

\* ------------------------------------------------------------------ store writes: properties

\* both calls wrote, and both had read before either wrote
BothReadFirst(calls) ==
    \A c \in CallIds : calls[c].pc = "done" /\ calls[c].writesSeen = 0

\* C11: when two savePreset calls, or two recordCost calls, overlap so that
\* both read before either writes, the file after both is what the last
\* writer made of its own read; the change of the other call is absent.
C11_LastWriterWins ==
    /\ BothReadFirst(presetsInFlight) =>
           LET last == presetsInFlight[writeOrder.presets[2]]
               other == presetsInFlight[writeOrder.presets[1]]
               presets == ListPresets(presetsFile, <<>>)
           IN  /\ presets = last.read \o last.preset
               /\ other.preset[1] \notin Range(presets)
    /\ BothReadFirst(costInFlight) =>
           LET last == costInFlight[writeOrder.cost[2]]
               other == costInFlight[writeOrder.cost[1]]
           IN  /\ costFile.entries = last.read.entries \o last.entry
               /\ costFile.dailySummaries =
                      AddToSummaries(last.read.dailySummaries, last.entry[1])
               /\ other.entry[1] \notin Range(costFile.entries)

\* The same on a file that exists and parses.
C11_OnExistingFile ==
    /\ (BothReadFirst(presetsInFlight) /\ \A c \in CallIds : ~presetsInFlight[c].file.shared) =>
           LET last == presetsInFlight[writeOrder.presets[2]]
               other == presetsInFlight[writeOrder.presets[1]]
               presets == ListPresets(presetsFile, <<>>)
           IN  /\ presets = last.read \o last.preset
               /\ other.preset[1] \notin Range(presets)
    /\ (BothReadFirst(costInFlight) /\ \A c \in CallIds : ~costInFlight[c].data.shared) =>
           LET last == costInFlight[writeOrder.cost[2]]
               other == costInFlight[writeOrder.cost[1]]
           IN  /\ costFile.entries = last.read.entries \o last.entry
               /\ costFile.dailySummaries =
                      AddToSummaries(last.read.dailySummaries, last.entry[1])
               /\ other.entry[1] \notin Range(costFile.entries)

\* C12: whatever happens during a store write, a crash included, the file
\* at the store's path holds the complete previous content or the complete
\* new content; a write that fails rejects the call and leaves the file as
\* it was.
C12_WriteIsAtomic ==
    [][/\ \/ presetsFile' = presetsFile
          \/ \E c \in CallIds :
                 /\ presetsInFlight[c].pc = "writeFileAtomic"
                 /\ presetsInFlight'[c].pc = "done"
                 /\ presetsFile' = [kind |-> "json", json |-> presetsInFlight[c].text]
       /\ \/ costFile' = costFile
          \/ \E c \in CallIds :
                 /\ costInFlight[c].pc = "writeFileAtomic"
                 /\ costInFlight'[c].pc = "done"
                 /\ costFile' = costInFlight[c].text
       /\ \A c \in CallIds :
              /\ (/\ presetsInFlight'[c].pc # presetsInFlight[c].pc
                  /\ presetsInFlight'[c].pc \in {"rejected", "crashed"}) =>
                     presetsFile' = presetsFile
              /\ (/\ costInFlight'[c].pc # costInFlight[c].pc
                  /\ costInFlight'[c].pc \in {"rejected", "crashed"}) =>
                     costFile' = costFile
      ]_vars

C12_Witness ==
    /\ presetsInFlight[1].pc = "crashed"
    /\ presetsInFlight[1].text # JUndef
    /\ presetsInFlight[2].pc = "rejected"
    /\ presetsInFlight[2].text # JUndef
    /\ presetsFile = PresetsJson(1, <<OldPresetA>>)
    /\ costInFlight[1].pc = "crashed"
    /\ costInFlight[2].pc = "done"
    /\ costFile = costInFlight[2].text

\* ------------------------------------------------------------------ token predictor

\* Math.ceil(text.length / 4)
EstimateTokens(length) == (length + 3) \div 4

\* predictTokenUsage(params).  A string is modelled by its length; the
\* estimated cost, a double in the code, is kept in millionths:
\* in/1000 * 0.003 + out/1000 * 0.015 = (3 * in + 15 * out) / 10^6.
PredictTokenUsage(params) ==
    LET messageTokens == EstimateTokens(params.messageContent)
        fileTokens == SumSeq([i \in DOMAIN params.attachedFiles |->
                                   EstimateTokens(params.attachedFiles[i])])
        estimatedInputTokens == messageTokens + fileTokens + params.currentContext
        estimatedOutputTokens ==
            IF Truthy(params.historicalAvgOutput) THEN params.historicalAvgOutput.v ELSE 500
        estimatedTotalTokens == estimatedInputTokens + estimatedOutputTokens
        estimatedCostUsd == 3 * estimatedInputTokens + 15 * estimatedOutputTokens
        warningLevel ==
            IF estimatedTotalTokens > 100000 THEN "critical"
            ELSE IF estimatedTotalTokens > 50000 THEN "high"
            ELSE "none"
        suggestions ==
            IF estimatedTotalTokens > 100000
                THEN <<"Consider splitting into multiple smaller requests",
                       "Remove unnecessary file attachments">>
            ELSE IF estimatedTotalTokens > 50000
                THEN <<"Large context detected - consider compaction">>
            ELSE <<>>
    IN  [estimatedInputTokens |-> estimatedInputTokens,
         estimatedOutputTokens |-> estimatedOutputTokens,
         estimatedTotalTokens |-> estimatedTotalTokens,
         estimatedCostUsd |-> estimatedCostUsd,
         warningLevel |-> warningLevel,
         suggestions |-> suggestions]

MessageLengths == {0, 1, 4, 5, 197997, 198000, 397997, 398000}

FileLengths == {<<>>, <<1>>, <<4, 5>>, <<1, 1, 1>>}

CurrentContexts == {0, 1, 498, 49500}

HistoricalAvgOutputs == {Unset, Num(0), Num(1), Num(1000)}

PredictParams ==
    [messageContent : MessageLengths,
     attachedFiles : FileLengths,
     currentContext : CurrentContexts,
     historicalAvgOutput : HistoricalAvgOutputs]

NoPrediction == [params |-> [messageContent |-> 0, attachedFiles |-> <<>>,
                             currentContext |-> 0, historicalAvgOutput |-> Unset],
                 result |-> <<>>]

PredictInit ==
    /\ prediction \in [params : PredictParams, result : {<<>>}]

PredictStep ==
    /\ prediction.result = <<>>
    /\ prediction' = [prediction EXCEPT !.result = <<PredictTokenUsage(prediction.params)>>]

\* ------------------------------------------------------------------ workspace favorites

\* prev.some((f) => f.workspaceId === workspaceId)
IsPinnedNever(list, workspaceId) == FALSE

IsPinned(list, workspaceId) ==
    \E i \in DOMAIN list : list[i].workspaceId = workspaceId

\* the updater of addFavorite, applied to the current value of the state
AddFavoriteUpdater(prev, workspaceId) ==
    IF IsPinned(prev, workspaceId)
        THEN prev
        ELSE Append(prev, [workspaceId |-> workspaceId, pinnedAt |-> now])

\* the updater of removeFavorite
RemoveFavoriteUpdater(prev, workspaceId) ==
    SelectSeq(prev, LAMBDA f : f.workspaceId # workspaceId)

\* Array.prototype.sort((a, b) => b.pinnedAt - a.pinnedAt): stable, newest first
RECURSIVE InsertByPinnedAt(_, _)
InsertByPinnedAt(sorted, f) ==
    IF sorted = <<>> THEN <<f>>
    ELSE IF Head(sorted).pinnedAt >= f.pinnedAt
        THEN <<Head(sorted)>> \o InsertByPinnedAt(Tail(sorted), f)
        ELSE <<f>> \o sorted

RECURSIVE SortByPinnedAt(_)
SortByPinnedAt(list) ==
    IF list = <<>> THEN <<>>
    ELSE InsertByPinnedAt(SortByPinnedAt(SubSeq(list, 1, Len(list) - 1)), list[Len(list)])

NoFavoritesCall == [op |-> "none", workspaceId |-> "none", at |-> 0]

\* addFavorite(workspaceId): setFavorites(updater).  An updater that returns
\* prev leaves the state's array object in place.
AddFavorite(workspaceId) ==
    /\ favorites' = AddFavoriteUpdater(favorites, workspaceId)
    /\ favoritesShared' = (favoritesShared /\ IsPinned(favorites, workspaceId))
    /\ favLast' = [op |-> "addFavorite", workspaceId |-> workspaceId, at |-> now]
    /\ UNCHANGED favoritesView

\* removeFavorite(workspaceId): filter always returns a new array
RemoveFavorite(workspaceId) ==
    /\ favorites' = RemoveFavoriteUpdater(favorites, workspaceId)
    /\ favoritesShared' = FALSE
    /\ favLast' = [op |-> "removeFavorite", workspaceId |-> workspaceId, at |-> now]
    /\ UNCHANGED favoritesView

\* isFavorite(workspaceId) of the last render
IsFavorite(workspaceId) == IsPinned(favoritesView, workspaceId)

\* toggleFavorite(workspaceId): decides on the favorites of the last render
ToggleFavorite(workspaceId) ==
    /\ favorites' = IF IsFavorite(workspaceId)
                        THEN RemoveFavoriteUpdater(favorites, workspaceId)
                        ELSE AddFavoriteUpdater(favorites, workspaceId)
    /\ favoritesShared' = (/\ favoritesShared
                           /\ ~IsFavorite(workspaceId)
                           /\ IsPinned(favorites, workspaceId))
    /\ favLast' = [op |-> "toggleFavorite", workspaceId |-> workspaceId, at |-> now]
    /\ UNCHANGED favoritesView

\* getFavoriteWorkspaceIds(): sorts the rendered array in place; the array is
\* the state's own while no updater has replaced it
GetFavoriteWorkspaceIds ==
    /\ favoritesView' = SortByPinnedAt(favoritesView)
    /\ favorites' = IF favoritesShared THEN SortByPinnedAt(favoritesView) ELSE favorites
    /\ favLast' = [op |-> "getFavoriteWorkspaceIds", workspaceId |-> "none", at |-> now]
    /\ UNCHANGED favoritesShared

\* a render of the component: the hook returns the current state
FavoritesRender ==
    /\ favoritesView' = favorites
    /\ favoritesShared' = TRUE
    /\ favLast' = [op |-> "render", workspaceId |-> "none", at |-> now]
    /\ UNCHANGED favorites

WorkspaceIds == {"w1", "w2", "w3"}

FavoritesIdle ==
    /\ favorites = <<>>
    /\ favoritesView = <<>>
    /\ favoritesShared = TRUE
    /\ favLast = NoFavoritesCall

\* the persisted list a session starts from: the default [] or an earlier session's
FavoritesInit ==
    /\ favorites \in {<<>>, <<[workspaceId |-> "w1", pinnedAt |-> 0]>>}
    /\ favoritesView = favorites
    /\ favoritesShared = TRUE
    /\ favLast = NoFavoritesCall

FavoritesAddStep ==
    /\ \E workspaceId \in WorkspaceIds : AddFavorite(workspaceId)
    /\ UNCHANGED now

FavoritesRemoveStep ==
    /\ \E workspaceId \in WorkspaceIds : RemoveFavorite(workspaceId)
    /\ UNCHANGED now

FavoritesToggleStep ==
    /\ \E workspaceId \in WorkspaceIds : ToggleFavorite(workspaceId)
    /\ UNCHANGED now

FavoritesSortStep ==
    /\ GetFavoriteWorkspaceIds
    /\ UNCHANGED now

FavoritesRenderStep ==
    /\ FavoritesRender
    /\ UNCHANGED now

FavoritesTick ==
    /\ now < MaxFavoritesTime
    /\ now' = now + 1
    /\ UNCHANGED <<favorites, favoritesView, favoritesShared, favLast>>

ClientIdle ==
    /\ prediction = NoPrediction
    /\ FavoritesIdle

\* ------------------------------------------------------------------ token predictor: properties

\* C19: estimatedInputTokens is ceil(len(message)/4) plus ceil(len(file)/4)
\* summed over the attached files plus currentContext; estimatedOutputTokens
\* is historicalAvgOutput when it is provided and 500 otherwise; totalTokens is
\* their sum; warningLevel is "critical" iff totalTokens > 100000, "high" iff
\* 50000 < totalTokens <= 100000 and "none" otherwise; suggestions is empty
\* iff warningLevel is "none".
C19_PredictionFormula ==
    \A i \in DOMAIN prediction.result :
        LET params == prediction.params
            r == prediction.result[i]
        IN  /\ r.estimatedInputTokens =
                   EstimateTokens(params.messageContent)
                 + SumSeq([k \in DOMAIN params.attachedFiles |->
                               EstimateTokens(params.attachedFiles[k])])
                 + params.currentContext
            /\ r.estimatedOutputTokens =
                   (IF params.historicalAvgOutput.set
                        THEN params.historicalAvgOutput.v ELSE 500)
            /\ r.estimatedTotalTokens = r.estimatedInputTokens + r.estimatedOutputTokens
            /\ r.warningLevel = "critical" <=> r.estimatedTotalTokens > 100000
            /\ r.warningLevel = "high" <=> (r.estimatedTotalTokens > 50000 /\ r.estimatedTotalTokens <= 100000)
            /\ r.warningLevel \in {"critical", "high", "none"}
            /\ r.suggestions = <<>> <=> r.warningLevel = "none"

\* ------------------------------------------------------------------ workspace favorites: properties

WorkspaceIdsOf(list) == {list[i].workspaceId : i \in DOMAIN list}

AtMostOnePerWorkspace(list) ==
    \A i, j \in DOMAIN list : list[i].workspaceId = list[j].workspaceId => i = j

\* C20: after any sequence of addFavorite, removeFavorite and toggleFavorite
\* calls the list holds at most one entry per workspaceId; addFavorite for a
\* workspace that is already pinned leaves the list, its pinnedAt included,
\* unchanged; removeFavorite removes the entry of the given workspace and no
\* other.
C20_FavoritesUnique ==
    /\ [](AtMostOnePerWorkspace(favorites))
    /\ [][/\ \A w \in WorkspaceIds :
                 (AddFavorite(w) /\ w \in WorkspaceIdsOf(favorites)) => favorites' = favorites
          /\ \A w \in WorkspaceIds :
                 RemoveFavorite(w) =>
                     /\ w \notin WorkspaceIdsOf(favorites')
                     /\ \A i \in DOMAIN favorites :
                            favorites[i].workspaceId # w =>
                                \E j \in DOMAIN favorites' : favorites'[j] = favorites[i]
                     /\ \A j \in DOMAIN favorites' :
                            \E i \in DOMAIN favorites : favorites[i] = favorites'[j]
         ]_vars

C20_Witness ==
    /\ favLast.op = "addFavorite"
    /\ favLast.workspaceId = "w1"
    /\ Len(favorites) = 3
    /\ \E i \in DOMAIN favorites :
           favorites[i].workspaceId = "w1" /\ favorites[i].pinnedAt < favLast.at

\* ================================================================== code snippets

\* useCodeSnippets keeps the library in usePersistedState (snippets, newest
\* first).  Its callbacks are rebuilt on every render; importSnippets(file)
\* starts a FileReader and the reader's onload handler, which runs when the
\* file has been read, is the closure made by that call: the `snippets` it
\* sees is the array of the render importSnippets was called in
\* (snippetImports[c].snippets), while setSnippets((prev) => ...) works on
\* the state as it is when onload runs.  A snippet is [id, name]; the other
\* fields take no part in the import.

SnippetNames == {"a", "b"}

ImportIds == 1..2

\* the ids crypto.randomUUID() hands out, in order
SnippetUuids == [n \in 1..MaxSnippets |-> IF n = 1 THEN "u1" ELSE IF n = 2 THEN "u2" ELSE "u3"]

SnippetIds == Range(SnippetUuids) \cup {"f1", "f2"}

\* the snippets a file holds once JSON.parse has run, or what else it holds
SnippetFiles ==
    {[kind |-> "array", imported |-> <<[id |-> "f1", name |-> "a"]>>],
     [kind |-> "array", imported |-> <<[id |-> "f1", name |-> "a"],
                                       [id |-> "f2", name |-> "b"]>>],
     [kind |-> "object", imported |-> <<>>],
     [kind |-> "invalid", imported |-> <<>>]}

NoImport ==
    [pc |-> "idle", file |-> [kind |-> "invalid", imported |-> <<>>], snippets |-> <<>>,
     promise |-> "none", count |-> 0]

NamesOf(list) == {list[i].name : i \in DOMAIN list}

\* createSnippet(input) with input.name = name
CreateSnippet(name) ==
    LET newSnippet == [id |-> SnippetUuids[snippetNextId], name |-> name]
    IN  /\ snippetNextId <= MaxSnippets
        /\ snippets' = <<newSnippet>> \o snippets
        /\ snippetNextId' = snippetNextId + 1
        /\ UNCHANGED snippetImports

\* deleteSnippet(id)
DeleteSnippet(id) ==
    /\ \E i \in DOMAIN snippets : snippets[i].id = id
    /\ snippets' = SelectSeq(snippets, LAMBDA s : s.id # id)
    /\ UNCHANGED <<snippetNextId, snippetImports>>

\* duplicateSnippet(id), called in a render that shows the current library
DuplicateSnippet(id) ==
    /\ snippetNextId <= MaxSnippets
    /\ \E i \in DOMAIN snippets : snippets[i].id = id
    /\ LET snippet == snippets[CHOOSE i \in DOMAIN snippets : snippets[i].id = id]
           duplicate == [id |-> SnippetUuids[snippetNextId], name |-> snippet.name \o " (copy)"]
       IN  snippets' = <<duplicate>> \o snippets
    /\ snippetNextId' = snippetNextId + 1
    /\ UNCHANGED snippetImports

\* importSnippets(file), call c: the promise is created and
\* reader.readAsText(file) starts
ImportSnippets(c, file) ==
    /\ snippetImports[c].pc = "idle"
    /\ snippetImports[c].promise = "none"
    /\ snippetImports' = [snippetImports EXCEPT
                             ![c] = [pc |-> "reading", file |-> file, snippets |-> snippets,
                                     promise |-> "pending", count |-> 0]]
    /\ UNCHANGED <<snippets, snippetNextId>>

\* imported.filter((s) => !existingNames.has(s.name))
NewSnippets(imported, existing) ==
    SelectSeq(imported, LAMBDA s : s.name \notin NamesOf(existing))

\* reader.onload of call c
ReaderOnload(c) ==
    LET call == snippetImports[c]
        newSnippets == NewSnippets(call.file.imported, call.snippets)
    IN  /\ call.pc = "reading"
        /\ IF call.file.kind = "array"
              THEN /\ snippets' = newSnippets \o snippets
                   /\ snippetImports' = [snippetImports EXCEPT
                                            ![c].pc = "idle", ![c].promise = "resolved",
                                            ![c].count = Len(newSnippets)]
              ELSE /\ UNCHANGED snippets
                   /\ snippetImports' = [snippetImports EXCEPT
                                            ![c].pc = "idle", ![c].promise = "rejected"]
        /\ UNCHANGED snippetNextId

\* reader.onerror of call c
ReaderOnerror(c) ==
    /\ snippetImports[c].pc = "reading"
    /\ snippetImports' = [snippetImports EXCEPT ![c].pc = "idle", ![c].promise = "rejected"]
    /\ UNCHANGED <<snippets, snippetNextId>>

SnippetsIdle ==
    /\ snippets = <<>>
    /\ snippetNextId = 1
    /\ snippetImports = [c \in ImportIds |-> NoImport]

CreateSnippetStep == \E name \in SnippetNames : CreateSnippet(name)

DeleteSnippetStep == \E id \in SnippetIds : DeleteSnippet(id)

DuplicateSnippetStep == \E id \in SnippetIds : DuplicateSnippet(id)

ImportSnippetsStep == \E c \in ImportIds, file \in SnippetFiles : ImportSnippets(c, file)

ReaderOnloadStep == \E c \in ImportIds : ReaderOnload(c)

ReaderOnerrorStep == \E c \in ImportIds : ReaderOnerror(c)

\* ------------------------------------------------------------------ code snippets: properties

\* C24: importSnippets adds an imported snippet only if no snippet that is
\* in the library at that moment has the same name, also when snippets
\* were created, duplicated or imported while the file was being read, and
\* its promise resolves with the number of snippets it added.
C24_ImportSkipsExistingNames ==
    [][\A c \in ImportIds :
           ReaderOnload(c) /\ snippetImports[c].file.kind = "array" =>
               LET added == SubSeq(snippets', 1, Len(snippets') - Len(snippets))
               IN  /\ \A i \in DOMAIN added : added[i].name \notin NamesOf(snippets)
                   /\ snippetImports'[c].promise = "resolved"
                   /\ snippetImports'[c].count = Len(added)]_vars

\* When the library did not change while the file was being read, the
\* import skips the names the library holds.
C24_ImportWithoutChangesMeanwhile ==
    [][\A c \in ImportIds :
           /\ ReaderOnload(c)
           /\ snippetImports[c].file.kind = "array"
           /\ snippetImports[c].snippets = snippets
           => LET added == SubSeq(snippets', 1, Len(snippets') - Len(snippets))
              IN  /\ \A i \in DOMAIN added : added[i].name \notin NamesOf(snippets)
                  /\ snippetImports'[c].promise = "resolved"
                  /\ snippetImports'[c].count = Len(added)]_vars

\* ================================================================== icon theme provider

\* IconThemeProvider holds activeThemeId, activeThemeDocument, isLoading and
\* iconBaseUrl (themeCtx) and fetches the active theme with fetchTheme, on
\* mount and through refetchTheme; themeFetch is where each running
\* fetchTheme call stands, themeLast how the fetch that settled last ended.
\* A file name is the record of the name, its lower-case form and its
\* extensions, longest first; an icon path is the sequence of its segments.

CustomThemeIds == {<<"p", ".", "n", "-", "a", "b">>}

FetchIds == 1..2

NoDocument == "null"

\* obj?.[key], Undefined when the key is absent
Lookup(map, key) == IF key \in DOMAIN map THEN map[key] ELSE Undefined

NoIconMap == [k \in {} |-> Undefined]

\* The part of MUP_DEFAULT_THEME the file names below reach.
MUP_DEFAULT_THEME ==
    [iconDefinitions |-> [id \in {"typescript", "readme", "file", "folder", "folder_src"} |->
                             [iconPath |-> IF id = "typescript" THEN <<"typescript.svg">>
                                           ELSE IF id = "readme" THEN <<"readme.svg">>
                                           ELSE IF id = "file" THEN <<"file.svg">>
                                           ELSE IF id = "folder" THEN <<"folder.svg">>
                                           ELSE <<"folder_src.svg">>]],
     file |-> "file",
     folder |-> "folder",
     folderExpanded |-> Undefined,
     fileExtensions |-> [k \in {"ts"} |-> "typescript"],
     fileNames |-> [k \in {"readme.md"} |-> "readme"],
     folderNames |-> [k \in {"src"} |-> "folder_src"],
     folderNamesExpanded |-> NoIconMap,
     languageIds |-> NoIconMap]

\* The document of an imported theme.
CustomThemeDocument ==
    [iconDefinitions |-> [id \in {"_ts", "_file", "_folder", "_folder_open"} |->
                             [iconPath |-> IF id = "_ts" THEN <<".", "icons", "ts.svg">>
                                           ELSE IF id = "_file" THEN <<".", "icons", "file.svg">>
                                           ELSE IF id = "_folder" THEN <<"icons", "folder.svg">>
                                           ELSE <<"icons", "folder-open.svg">>]],
     file |-> "_file",
     folder |-> "_folder",
     folderExpanded |-> "_folder_open",
     fileExtensions |-> [k \in {"ts"} |-> "_ts"],
     fileNames |-> NoIconMap,
     folderNames |-> NoIconMap,
     folderNamesExpanded |-> NoIconMap,
     languageIds |-> [k \in {"typescript"} |-> "_ts"]]

ThemeDocuments == {"MUP_DEFAULT_THEME", "custom"}

DocumentOf(doc) == IF doc = "MUP_DEFAULT_THEME" THEN MUP_DEFAULT_THEME ELSE CustomThemeDocument

\* the SVG files import.meta.glob("../../../icons/*.svg") bundles
BundledIcons ==
    {<<"typescript.svg">>, <<"readme.svg">>, <<"file.svg">>, <<"folder.svg">>,
     <<"folder_src.svg">>}

NoUrl == [kind |-> "undefined", base |-> "", themeId |-> <<>>, path |-> <<>>]

\* getRootIconUrl(iconName)
GetRootIconUrl(iconName) ==
    IF iconName \in BundledIcons
        THEN [kind |-> "bundled", base |-> "", themeId |-> <<>>, path |-> iconName]
        ELSE NoUrl

FileNames ==
    {[fileName |-> "App.ts", lowerName |-> "app.ts", exts |-> <<"ts">>],
     [fileName |-> "README.md", lowerName |-> "readme.md", exts |-> <<"md">>],
     [fileName |-> "src", lowerName |-> "src", exts |-> <<>>]}

ResolveIconOptions ==
    [isFolder : BOOLEAN, isExpanded : BOOLEAN, languageId : {Undefined, "typescript"}]

\* the first extension of exts, from index i on, that fileExtensions maps
RECURSIVE ExtensionMatch(_, _, _)
ExtensionMatch(doc, exts, i) ==
    IF i > Len(exts) THEN Undefined
    ELSE IF Lookup(doc.fileExtensions, exts[i]) # Undefined
        THEN doc.fileExtensions[exts[i]]
        ELSE ExtensionMatch(doc, exts, i + 1)

\* resolveIconDefinitionId(doc, fileName, options)
ResolveIconDefinitionId(doc, name, options) ==
    IF options.isFolder
        THEN IF options.isExpanded /\ Lookup(doc.folderNamesExpanded, name.lowerName) # Undefined
                 THEN doc.folderNamesExpanded[name.lowerName]
             ELSE IF Lookup(doc.folderNames, name.lowerName) # Undefined
                 THEN doc.folderNames[name.lowerName]
             ELSE IF options.isExpanded /\ doc.folderExpanded # Undefined
                 THEN doc.folderExpanded
             ELSE doc.folder
    ELSE IF Lookup(doc.fileNames, name.lowerName) # Undefined
        THEN doc.fileNames[name.lowerName]
    ELSE IF Lookup(doc.fileNames, name.fileName) # Undefined
        THEN doc.fileNames[name.fileName]
    ELSE IF ExtensionMatch(doc, name.exts, 1) # Undefined
        THEN ExtensionMatch(doc, name.exts, 1)
    ELSE IF options.languageId # Undefined
            /\ Lookup(doc.languageIds, options.languageId) # Undefined
        THEN doc.languageIds[options.languageId]
    ELSE doc.file

\* definition.iconPath.replace(/^\.\//, ""), on the segments of the path
StripLeadingDot(iconPath) ==
    IF Len(iconPath) > 1 /\ iconPath[1] = "." THEN Tail(iconPath) ELSE iconPath

\* resolveIconUrl(fileName, options) of a provider in state ctx
ResolveIconUrl(ctx, name, options) ==
    IF ctx.activeThemeDocument = NoDocument THEN NoUrl
    ELSE LET doc == DocumentOf(ctx.activeThemeDocument)
             definitionId == ResolveIconDefinitionId(doc, name, options)
         IN  IF definitionId = Undefined THEN NoUrl
             ELSE IF definitionId \notin DOMAIN doc.iconDefinitions THEN NoUrl
             ELSE IF ctx.activeThemeId = DEFAULT_MUP_THEME_ID
                 THEN GetRootIconUrl(doc.iconDefinitions[definitionId].iconPath)
             ELSE [kind |-> "server", base |-> ctx.iconBaseUrl, themeId |-> ctx.activeThemeId,
                   path |-> <<"icon-themes">>
                            \o StripLeadingDot(doc.iconDefinitions[definitionId].iconPath)]

\* For comparison: a resolver that goes by the document it holds.
ResolveIconUrlByDocument(ctx, name, options) ==
    ResolveIconUrl([ctx EXCEPT !.activeThemeId =
                        IF ctx.activeThemeDocument = "MUP_DEFAULT_THEME"
                            THEN DEFAULT_MUP_THEME_ID ELSE @],
                   name, options)

NoThemeCtx ==
    [activeThemeId |-> DEFAULT_MUP_THEME_ID, activeThemeDocument |-> NoDocument,
     isLoading |-> TRUE, iconBaseUrl |-> "browser"]

NoFetch == [pc |-> "idle"]

\* fetchTheme() starts: setIsLoading(true), then awaits getActiveThemeId()
FetchThemeStarts(f) ==
    /\ themeFetch[f].pc = "idle"
    /\ themeCtx' = [themeCtx EXCEPT !.isLoading = TRUE]
    /\ themeFetch' = [themeFetch EXCEPT ![f].pc = "getActiveThemeId"]
    /\ themeLast' = "none"

\* api.iconTheme.getActiveThemeId() of fetch f settles: with an id, or it
\* rejects (ok = FALSE)
GetActiveThemeIdSettles(f, ok, id) ==
    /\ themeFetch[f].pc = "getActiveThemeId"
    /\ IF ~ok
          THEN /\ themeCtx' = [themeCtx EXCEPT !.activeThemeDocument = "MUP_DEFAULT_THEME",
                                               !.isLoading = FALSE]
               /\ themeFetch' = [themeFetch EXCEPT ![f].pc = "idle"]
               /\ themeLast' = "failed"
          ELSE IF id = DEFAULT_MUP_THEME_ID
              THEN /\ themeCtx' = [themeCtx EXCEPT !.activeThemeId = id,
                                                   !.activeThemeDocument = "MUP_DEFAULT_THEME",
                                                   !.isLoading = FALSE]
                   /\ themeFetch' = [themeFetch EXCEPT ![f].pc = "idle"]
                   /\ themeLast' = "loaded"
              ELSE /\ themeCtx' = [themeCtx EXCEPT !.activeThemeId = id]
                   /\ themeFetch' = [themeFetch EXCEPT ![f].pc = "getActiveThemeDocument"]
                   /\ UNCHANGED themeLast

\* api.iconTheme.getActiveThemeDocument() of fetch f settles: with a
\* document or null, or it rejects (ok = FALSE)
GetActiveThemeDocumentSettles(f, ok, doc) ==
    /\ themeFetch[f].pc = "getActiveThemeDocument"
    /\ themeCtx' = [themeCtx EXCEPT
                       !.activeThemeDocument = IF ok THEN doc ELSE "MUP_DEFAULT_THEME",
                       !.isLoading = FALSE]
    /\ themeFetch' = [themeFetch EXCEPT ![f].pc = "idle"]
    /\ themeLast' = IF ok THEN "loaded" ELSE "failed"

\* window.api.getApiServerUrl() resolves with url
ApiServerUrlResolves(url) ==
    /\ themeCtx.iconBaseUrl = "browser"
    /\ themeCtx' = [themeCtx EXCEPT !.iconBaseUrl = url]
    /\ UNCHANGED <<themeFetch, themeLast>>

ThemeIdle ==
    /\ themeCtx = NoThemeCtx
    /\ themeFetch = [f \in FetchIds |-> NoFetch]
    /\ themeLast = "none"

FetchThemeStartsStep == \E f \in FetchIds : FetchThemeStarts(f)

GetActiveThemeIdSettlesStep ==
    \E f \in FetchIds, ok \in BOOLEAN, id \in {DEFAULT_MUP_THEME_ID} \cup CustomThemeIds :
        GetActiveThemeIdSettles(f, ok, id)

GetActiveThemeDocumentSettlesStep ==
    \E f \in FetchIds, ok \in BOOLEAN, doc \in {"custom", NoDocument} :
        GetActiveThemeDocumentSettles(f, ok, doc)

ApiServerUrlResolvesStep == \E url \in {"http://127.0.0.1:1"} : ApiServerUrlResolves(url)

\* ------------------------------------------------------------------ icon theme provider: properties

\* C23: when the fetch of the active theme fails (getActiveThemeId or
\* getActiveThemeDocument rejects) the provider falls back to the
\* built-in default theme: once that fetch has ended isLoading is false
\* and resolveIconUrl resolves every name through the bundled default
\* icons (getRootIconUrl), never to a URL of a custom theme on the server.
C23_FailedFetchFallsBack ==
    themeLast = "failed" =>
        /\ ~themeCtx.isLoading
        /\ \A name \in FileNames, options \in ResolveIconOptions :
               ResolveIconUrl(themeCtx, name, options)
                   = GetRootIconUrl(MUP_DEFAULT_THEME.iconDefinitions[
                         ResolveIconDefinitionId(MUP_DEFAULT_THEME, name, options)].iconPath)

\* After a failed fetch the provider does hold the default document and is
\* no longer loading; what is left of the fetched theme is activeThemeId.
C23_FailedFetchHoldsDefaultDocument ==
    themeLast = "failed" =>
        /\ ~themeCtx.isLoading
        /\ themeCtx.activeThemeDocument = "MUP_DEFAULT_THEME"

\* ================================================================== custom models

\* ModelsSection keeps the providers config (per provider the list of
\* custom model ids and the metadata by model id) and hands two things to
\* ModelPresetsDialog: currentModels, the custom models of every provider,
\* which "Save" stores as a preset, and onApplyPreset, which "Load" calls
\* with the models of a stored preset.  providersConfig is that config,
\* savedPreset the models of the stored preset.  The hidden provider
\* mux-gateway never holds custom models and is left out.

ProviderOrder == <<"anthropic", "openai">>

ModelProviders == Range(ProviderOrder)

ModelIds == {"m1", "m2"}

ModelMetadatas == {"md"}

NoProviderConfig == [models |-> <<>>, modelMetadata |-> [m \in ModelIds |-> Undefined]]

NoSavedPreset == [saved |-> FALSE, models |-> <<>>]

\* modelExists(provider, modelId, excludeOriginal)
ModelExists(config, provider, modelId, excludeOriginal) ==
    \E i \in DOMAIN config[provider].models :
        /\ config[provider].models[i] = modelId
        /\ config[provider].models[i] # excludeOriginal

\* api.providers.setModels({ provider, models }): the provider's list of
\* custom models becomes `models`
SetModels(config, provider, models) ==
    [config EXCEPT ![provider].models = models]

\* api.providers.setModelMetadata({ provider, modelId, metadata })
SetModelMetadata(config, provider, modelId, metadata) ==
    [config EXCEPT ![provider].modelMetadata[modelId] = metadata]

\* getCustomModels() for the providers from index i of ProviderOrder on
RECURSIVE GetCustomModelsFrom(_, _)
GetCustomModelsFrom(config, i) ==
    IF i > Len(ProviderOrder) THEN <<>>
    ELSE LET provider == ProviderOrder[i]
             models == config[provider].models
         IN  [k \in DOMAIN models |->
                 [provider |-> provider, modelId |-> models[k],
                  metadata |-> config[provider].modelMetadata[models[k]]]]
             \o GetCustomModelsFrom(config, i + 1)

GetCustomModels(config) == GetCustomModelsFrom(config, 1)

\* byProvider.get(provider) of onApplyPreset: the preset's entries of the
\* provider, in the preset's order
ByProvider(presetModels, provider) ==
    SelectSeq(presetModels, LAMBDA m : m.provider = provider)

\* the providers config after every call onApplyPreset(presetModels) makes
\* has settled: one setModels per provider of byProvider, one
\* setModelMetadata per entry that has metadata
OnApplyPreset(config, presetModels) ==
    [provider \in ModelProviders |->
        LET entries == ByProvider(presetModels, provider)
            modelIds == [i \in DOMAIN entries |-> entries[i].modelId]
            withMetadata == {i \in DOMAIN entries : entries[i].metadata # Undefined}
        IN  IF Len(entries) = 0
                THEN config[provider]
                ELSE [models |-> SetModels(config, provider, modelIds)[provider].models,
                      modelMetadata |->
                          [m \in ModelIds |->
                              IF \E i \in withMetadata : entries[i].modelId = m
                                  THEN entries[CHOOSE i \in withMetadata :
                                                   entries[i].modelId = m].metadata
                                  ELSE config[provider].modelMetadata[m]]]]

\* For comparison: an apply that sets the list of every provider, the
\* empty list for a provider the preset has no model of.
OnApplyPresetEveryProvider(config, presetModels) ==
    LET applied == OnApplyPreset(config, presetModels)
    IN  [provider \in ModelProviders |->
            IF Len(ByProvider(presetModels, provider)) = 0
                THEN SetModels(config, provider, <<>>)[provider]
                ELSE applied[provider]]

\* handleAddModel with lastProvider = provider, newModelId = modelId
HandleAddModel(provider, modelId) ==
    /\ ~ModelExists(providersConfig, provider, modelId, Undefined)
    /\ providersConfig' = SetModels(providersConfig, provider,
                                    Append(providersConfig[provider].models, modelId))
    /\ UNCHANGED savedPreset

\* handleRemoveModel(provider, modelId)
HandleRemoveModel(provider, modelId) ==
    /\ ModelExists(providersConfig, provider, modelId, Undefined)
    /\ providersConfig' = SetModels(providersConfig, provider,
                                    SelectSeq(providersConfig[provider].models,
                                              LAMBDA m : m # modelId))
    /\ UNCHANGED savedPreset

\* handleSaveEdit(newModelId, metadata) while editing the model
\* originalModelId of provider
HandleSaveEdit(provider, originalModelId, newModelId, metadata) ==
    LET models == providersConfig[provider].models
        renamed == [i \in DOMAIN models |->
                       IF models[i] = originalModelId THEN newModelId ELSE models[i]]
        listed == IF newModelId # originalModelId
                      THEN SetModels(providersConfig, provider, renamed)
                      ELSE providersConfig
    IN  /\ ModelExists(providersConfig, provider, originalModelId, Undefined)
        /\ IF newModelId # originalModelId
              /\ ModelExists(providersConfig, provider, newModelId, Undefined)
              THEN UNCHANGED providersConfig
              ELSE providersConfig' = SetModelMetadata(listed, provider, newModelId, metadata)
        /\ UNCHANGED savedPreset

\* handleSave of ModelPresetsDialog: the button is disabled while there is
\* no custom model
HandleSave ==
    LET currentModels == GetCustomModels(providersConfig)
    IN  /\ Len(currentModels) > 0
        /\ savedPreset' = [saved |-> TRUE, models |-> currentModels]
        /\ UNCHANGED providersConfig

\* handleLoad(preset) of ModelPresetsDialog
HandleLoad ==
    /\ savedPreset.saved
    /\ providersConfig' = OnApplyPreset(providersConfig, savedPreset.models)
    /\ UNCHANGED savedPreset

ModelsIdle ==
    /\ providersConfig = [provider \in ModelProviders |-> NoProviderConfig]
    /\ savedPreset = NoSavedPreset

HandleAddModelStep ==
    \E provider \in ModelProviders, modelId \in ModelIds : HandleAddModel(provider, modelId)

HandleRemoveModelStep ==
    \E provider \in ModelProviders, modelId \in ModelIds : HandleRemoveModel(provider, modelId)

HandleSaveEditStep ==
    \E provider \in ModelProviders, originalModelId \in ModelIds, newModelId \in ModelIds,
       metadata \in ModelMetadatas :
        HandleSaveEdit(provider, originalModelId, newModelId, metadata)

HandleSaveStep == HandleSave

HandleLoadStep == HandleLoad

\* ------------------------------------------------------------------ custom models: properties

\* the custom models list the preset holds for a provider
PresetModelsOf(presetModels, provider) ==
    LET entries == ByProvider(presetModels, provider)
    IN  [i \in DOMAIN entries |-> entries[i].modelId]

\* C22: applying a saved preset restores the configuration it was saved
\* from: after the apply the custom models list of every provider equals
\* the preset's list for that provider, so a model added after the
\* snapshot is gone, also under a provider the snapshot has no model of.
C22_ApplyRestoresPreset ==
    [][HandleLoad =>
           \A provider \in ModelProviders :
               providersConfig'[provider].models
                   = PresetModelsOf(savedPreset.models, provider)]_vars

\* For the providers the preset has a model of, the apply does set the
\* preset's list.
C22_ApplyRestoresPresetProviders ==
    [][HandleLoad =>
           \A provider \in ModelProviders :
               Len(ByProvider(savedPreset.models, provider)) > 0 =>
                   providersConfig'[provider].models
                       = PresetModelsOf(savedPreset.models, provider)]_vars

UiIdle ==
    /\ ModelsIdle
    /\ ThemeIdle
    /\ SnippetsIdle

\* ================================================================== deep links
\* initTauriApiShim: the "mux:deep-link" listener, consumePendingDeepLinks
\* and onDeepLink.  A callback is named by a letter; a registration is one
\* onDeepLink call, and its unsubscribe function is the closure that call
\* returned.

DeepLinkCallbackIds == {"A", "B"}

Registrations == 1..MaxRegistrations

\* The payload of the Tauri event number n.
TauriDeepLinkPayload(n) ==
    [payload_type |-> "new_chat", project |-> Undefined, project_path |-> "/w",
     project_id |-> Undefined, prompt |-> n, section_id |-> Undefined]

\* convertDeepLinkPayload(tauri)
ConvertDeepLinkPayload(tauri) ==
    [type |-> tauri.payload_type, project |-> tauri.project,
     projectPath |-> tauri.project_path, projectId |-> tauri.project_id,
     prompt |-> tauri.prompt, sectionId |-> tauri.section_id]

\* deepLinkCallbacks.indexOf(callback), 0 when it is not in the array
IndexOfCallback(callbacks, callback) ==
    IF \E i \in DOMAIN callbacks : callbacks[i] = callback
        THEN CHOOSE i \in DOMAIN callbacks :
                 callbacks[i] = callback /\ \A j \in 1..(i - 1) : callbacks[j] # callback
        ELSE 0

\* The unsubscribe function of a registration of `callback`.
Unsubscribed(callbacks, callback) ==
    LET index == IndexOfCallback(callbacks, callback)
    IN  IF index > 0 THEN RemoveAt(callbacks, index) ELSE callbacks

\* deepLinkCallbacks.forEach((cb) => cb(payload)) from index i on, over the
\* array as it is when the index is reached; length is the length at the
\* start of the loop.  st = [callbacks, delivered, registrations]; a
\* callback in `leaving` runs the unsubscribe function of its registration
\* `leaving[cb]` while it handles the event.
RECURSIVE ForEachCallback(_, _, _, _, _)
ForEachCallback(st, i, length, payload, leaving) ==
    IF i > length THEN st
    ELSE IF i > Len(st.callbacks) THEN ForEachCallback(st, i + 1, length, payload, leaving)
    ELSE LET cb == st.callbacks[i]
             got == [st EXCEPT !.delivered[cb] = Append(@, payload.prompt)]
             leaves == cb \in DOMAIN leaving /\ st.registrations[leaving[cb]].cb = cb
             st2 == IF leaves
                        THEN [got EXCEPT !.callbacks = Unsubscribed(@, cb),
                                         !.registrations[leaving[cb]].unsubscribeRan = TRUE]
                        ELSE got
         IN  ForEachCallback(st2, i + 1, length, payload, leaving)

NoRegistration == [cb |-> "none", unsubscribeRan |-> FALSE]

NoDeepLinkLog ==
    [events |-> 0,
     registrations |-> [r \in Registrations |-> NoRegistration],
     delivered |-> [cb \in DeepLinkCallbackIds |-> <<>>],
     returned |-> <<>>,
     last |-> [op |-> "none", links |-> <<>>]]

\* the callbacks that hold a registration whose unsubscribe function has not run
Subscribed(registrations) ==
    {registrations[r].cb : r \in {k \in Registrations :
                                      /\ registrations[k].cb # "none"
                                      /\ ~registrations[k].unsubscribeRan}}

\* The listener handed to listen("mux:deep-link", ...) receives an event.
DeepLinkEvent(leaving) ==
    LET n == deepLinkLog.events + 1
        payload == ConvertDeepLinkPayload(TauriDeepLinkPayload(n))
        start == [callbacks |-> deepLinkCallbacks, delivered |-> deepLinkLog.delivered,
                  registrations |-> deepLinkLog.registrations]
        end == ForEachCallback(start, 1, Len(deepLinkCallbacks), payload, leaving)
    IN  /\ deepLinkLog.events < MaxEvents
        /\ IF Len(deepLinkCallbacks) > 0
              THEN /\ deepLinkCallbacks' = end.callbacks
                   /\ UNCHANGED pendingDeepLinks
                   /\ deepLinkLog' = [deepLinkLog EXCEPT
                                         !.events = n,
                                         !.delivered = end.delivered,
                                         !.registrations = end.registrations,
                                         !.last = [op |-> "event", links |-> <<>>]]
              ELSE /\ pendingDeepLinks' = Append(pendingDeepLinks, payload)
                   /\ UNCHANGED deepLinkCallbacks
                   /\ deepLinkLog' = [deepLinkLog EXCEPT
                                         !.events = n,
                                         !.last = [op |-> "event", links |-> <<>>]]

\* consumePendingDeepLinks()
ConsumePendingDeepLinks ==
    LET links == pendingDeepLinks
    IN  /\ pendingDeepLinks' = <<>>
        /\ deepLinkLog' = [deepLinkLog EXCEPT
                              !.returned = @ \o [i \in DOMAIN links |-> links[i].prompt],
                              !.last = [op |-> "consumePendingDeepLinks",
                                        links |-> [i \in DOMAIN links |-> links[i].prompt]]]
        /\ UNCHANGED deepLinkCallbacks

\* onDeepLink(callback), as registration r
OnDeepLink(r, callback) ==
    /\ deepLinkLog.registrations[r].cb = "none"
    /\ \A k \in Registrations : k < r => deepLinkLog.registrations[k].cb # "none"
    /\ deepLinkCallbacks' = Append(deepLinkCallbacks, callback)
    /\ deepLinkLog' = [deepLinkLog EXCEPT
                          !.registrations[r] = [cb |-> callback, unsubscribeRan |-> FALSE],
                          !.last = [op |-> "onDeepLink", links |-> <<>>]]
    /\ UNCHANGED pendingDeepLinks

\* the unsubscribe function registration r returned is called
Unsubscribe(r) ==
    /\ deepLinkLog.registrations[r].cb # "none"
    /\ deepLinkCallbacks' = Unsubscribed(deepLinkCallbacks, deepLinkLog.registrations[r].cb)
    /\ deepLinkLog' = [deepLinkLog EXCEPT
                          !.registrations[r].unsubscribeRan = TRUE,
                          !.last = [op |-> "unsubscribe", links |-> <<>>]]
    /\ UNCHANGED pendingDeepLinks

DeepLinkIdle ==
    /\ pendingDeepLinks = <<>>
    /\ deepLinkCallbacks = <<>>
    /\ deepLinkLog = NoDeepLinkLog

\* which callbacks unsubscribe while they handle the event: none, or one
\* through one of its registrations
Leavings ==
    {EmptyFcn} \cup {(cb :> r) : cb \in DeepLinkCallbackIds, r \in Registrations}

DeepLinkEventStep == \E leaving \in Leavings : DeepLinkEvent(leaving)

DeepLinkConsumeStep == ConsumePendingDeepLinks

OnDeepLinkStep ==
    \E r \in Registrations, callback \in DeepLinkCallbackIds : OnDeepLink(r, callback)

UnsubscribeStep == \E r \in Registrations : Unsubscribe(r)

\* ------------------------------------------------------------------ deep links: properties

\* C21: every deep-link event is handed over exactly once: when at least
\* one onDeepLink callback is registered at that moment it is delivered to
\* every registered callback and not queued; otherwise it is queued and
\* returned, in arrival order, by exactly one later consumePendingDeepLinks
\* call (a second call returns an empty list); after the unsubscribe
\* function of a callback has run, that callback receives no further event.
C21_DeepLinkHandedOverOnce ==
    [][/\ \A leaving \in Leavings :
              DeepLinkEvent(leaving) =>
                  LET n == deepLinkLog'.events
                      subscribed == Subscribed(deepLinkLog.registrations)
                  IN  /\ \A cb \in subscribed :
                             /\ Len(deepLinkLog'.delivered[cb]) > Len(deepLinkLog.delivered[cb])
                             /\ deepLinkLog'.delivered[cb][Len(deepLinkLog'.delivered[cb])] = n
                      /\ \A cb \in DeepLinkCallbackIds \ subscribed :
                             deepLinkLog'.delivered[cb] = deepLinkLog.delivered[cb]
                      /\ subscribed # {} => pendingDeepLinks' = pendingDeepLinks
                      /\ subscribed = {} =>
                             /\ Len(pendingDeepLinks') = Len(pendingDeepLinks) + 1
                             /\ pendingDeepLinks'[Len(pendingDeepLinks')].prompt = n
       /\ ConsumePendingDeepLinks =>
              /\ deepLinkLog'.last.links = [i \in DOMAIN pendingDeepLinks |->
                                               pendingDeepLinks[i].prompt]
              /\ pendingDeepLinks' = <<>>
              /\ \A i, j \in DOMAIN deepLinkLog'.returned :
                     i < j => deepLinkLog'.returned[i] < deepLinkLog'.returned[j]
      ]_vars

\* ================================================================== sidecar shutdown
\* main(): the shutdown handler registered for SIGINT, SIGTERM and, on
\* Windows, the end of stdin.  Each delivered signal starts one run of
\* shutdown(signal); a run is "closing" while it awaits server.close(),
\* "disposing" while it awaits container.dispose().

Signals == {"SIGINT", "SIGTERM", "stdin end"}

ShutdownRuns == 1..MaxSignals

NoShutdown == [pc |-> "idle", signal |-> "none"]

SidecarRunning ==
    [exited |-> FALSE, code |-> 0, closeCalls |-> 0, disposeCalls |-> 0, events |-> <<>>]

\* process.exit(code)
ProcessExit(state, code) ==
    [state EXCEPT !.exited = TRUE, !.code = code,
                  !.events = Append(@, "exit")]

\* a signal is delivered: shutdown(signal) runs up to `await server.close()`
ShutdownStarts(run, signal) ==
    /\ ~sidecar.exited
    /\ shutdowns[run].pc = "idle"
    /\ \A r \in ShutdownRuns : r < run => shutdowns[r].pc # "idle"
    /\ shutdowns' = [shutdowns EXCEPT ![run] = [pc |-> "closing", signal |-> signal]]
    /\ sidecar' = [sidecar EXCEPT !.closeCalls = @ + 1,
                                  !.events = Append(@, "server.close")]

\* server.close() settles: the run goes on to container.dispose(), or the
\* catch block exits with code 1
ServerCloseSettles(run, ok) ==
    /\ ~sidecar.exited
    /\ shutdowns[run].pc = "closing"
    /\ IF ok
          THEN /\ shutdowns' = [shutdowns EXCEPT ![run].pc = "disposing"]
               /\ sidecar' = [sidecar EXCEPT !.disposeCalls = @ + 1,
                                             !.events = Append(@, "container.dispose")]
          ELSE /\ shutdowns' = [shutdowns EXCEPT ![run].pc = "done"]
               /\ sidecar' = ProcessExit(sidecar, 1)

\* container.dispose() settles: exit with code 0, or with code 1 from the catch
ContainerDisposeSettles(run, ok) ==
    /\ ~sidecar.exited
    /\ shutdowns[run].pc = "disposing"
    /\ shutdowns' = [shutdowns EXCEPT ![run].pc = "done"]
    /\ sidecar' = ProcessExit(sidecar, IF ok THEN 0 ELSE 1)

SidecarIdle ==
    /\ sidecar = SidecarRunning
    /\ shutdowns = [r \in ShutdownRuns |-> NoShutdown]

AppIdle ==
    /\ SidecarIdle
    /\ DeepLinkIdle
    /\ UiIdle

ShutdownStartsStep ==
    \E run \in ShutdownRuns, signal \in Signals : ShutdownStarts(run, signal)

ServerCloseSettlesStep ==
    \E run \in ShutdownRuns, ok \in BOOLEAN : ServerCloseSettles(run, ok)

ContainerDisposeSettlesStep ==
    \E run \in ShutdownRuns, ok \in BOOLEAN : ContainerDisposeSettles(run, ok)

\* ------------------------------------------------------------------ sidecar shutdown: properties

\* C28: on a signal the sidecar first closes the server, then disposes the
\* service container, then exits with code 0, or with code 1 if a step
\* throws; when a second signal arrives during a shutdown, server.close and
\* container.dispose are still invoked at most once each.
C28_ShutdownOnce ==
    /\ sidecar.closeCalls <= 1
    /\ sidecar.disposeCalls <= 1
    /\ sidecar.exited =>
           \/ sidecar.code = 0
              /\ sidecar.events = <<"server.close", "container.dispose", "exit">>
           \/ sidecar.code = 1
              /\ sidecar.events \in { <<"server.close", "exit">>,
                                      <<"server.close", "container.dispose", "exit">> }

\* The order and the exit code when one signal arrives.
C28_SingleSignalOrder ==
    (sidecar.exited /\ shutdowns[2].pc = "idle") =>
        \/ sidecar.code = 0
           /\ sidecar.events = <<"server.close", "container.dispose", "exit">>
        \/ sidecar.code = 1
           /\ sidecar.events \in { <<"server.close", "exit">>,
                                   <<"server.close", "container.dispose", "exit">> }

\* ------------------------------------------------------------------ model health: properties

ChecksOf(result) ==
    {result.checks.authentication.status, result.checks.modelExists.status,
     result.checks.tokenLimits.status, result.checks.pricing.status,
     result.checks.connectivity.status}

\* C1: the overall status of every checkModel result is "error" iff one of
\* the five checks is "fail"; otherwise "warning" iff one of them is
\* "warn"; otherwise "healthy".
C1_OverallStatus ==
    \A result \in GetLastResults :
        /\ result.status = "error" <=> "fail" \in ChecksOf(result)
        /\ "fail" \notin ChecksOf(result) =>
              (result.status = "warning" <=> "warn" \in ChecksOf(result))
        /\ ({"fail", "warn"} \cap ChecksOf(result) = {}) => result.status = "healthy"

\* Results of all three kinds are cached: one with a failed check next to
\* a warning, one with a warning and no failure, one with neither.
C1_Witness ==
    /\ \E result \in GetLastResults : {"fail", "warn"} \subseteq ChecksOf(result)
    /\ \E result \in GetLastResults :
          "warn" \in ChecksOf(result) /\ "fail" \notin ChecksOf(result)

\* C17: the tokenLimits check is "skip" when neither limit is set;
\* otherwise "warn" if the input limit is below 1000, or the output limit
\* is below 100, or the output limit exceeds the input limit; otherwise
\* "pass" - for all values of the limits, 0 included.
C17_TokenLimitsRule ==
    \A i \in DOMAIN ruleCheck.tokenLimits :
        LET maxIn == ruleCheck.customMetadata.maxInputTokens
            maxOut == ruleCheck.customMetadata.maxOutputTokens
        IN  ruleCheck.tokenLimits[i].status =
                IF ~maxIn.set /\ ~maxOut.set THEN "skip"
                ELSE IF \/ maxIn.set /\ maxIn.v < 1000
                        \/ maxOut.set /\ maxOut.v < 100
                        \/ maxIn.set /\ maxOut.set /\ maxOut.v > maxIn.v
                    THEN "warn"
                ELSE "pass"

\* C18: the pricing check is "skip" when neither cost is set; otherwise
\* "warn" if a cost is negative or the input cost exceeds the output cost;
\* otherwise "pass" - for all values of the costs, 0 and negative ones
\* included.
C18_PricingRule ==
    \A i \in DOMAIN ruleCheck.pricing :
        LET costIn == ruleCheck.customMetadata.inputCostPerToken
            costOut == ruleCheck.customMetadata.outputCostPerToken
        IN  ruleCheck.pricing[i].status =
                IF ~costIn.set /\ ~costOut.set THEN "skip"
                ELSE IF \/ costIn.set /\ costIn.v < 0
                        \/ costOut.set /\ costOut.v < 0
                        \/ costIn.set /\ costOut.set /\ costIn.v > costOut.v
                    THEN "warn"
                ELSE "pass"

\* ------------------------------------------------------------------ cost: properties

CostOfEntries(s) == SumSeq([i \in DOMAIN s |-> s[i].cost])

EntriesOn(entries, d) == SelectSeq(entries, LAMBDA e : DateKey(e.timestamp) = d)

EntriesOf(entries, m) == SelectSeq(entries, LAMBDA e : e.model = m)

\* C2: starting from a store that has no summary for date D, after N
\* completed recordCost calls in a row whose timestamps all fall on D, the
\* stored summary of D has totalCost = the sum of the N costs and
\* requestCount = N, and for every model m byModel[m] holds the number, the
\* cost and the input+output+cached+reasoning tokens of the entries of m
\* (no byModel key for a model without entries).
C2_RecordCostAdditive ==
    costRun.active =>
        /\ costFile.kind = "json" /\ costFile.version = 1
        /\ costRun.date \in DOMAIN costFile.dailySummaries
        /\ LET s == costFile.dailySummaries[costRun.date]
               log == costRun.log
           IN  /\ s.totalCost = CostOfEntries(log)
               /\ s.requestCount = Len(log)
               /\ \A m \in Models :
                     LET mine == EntriesOf(log, m)
                     IN  IF mine = <<>>
                             THEN m \notin DOMAIN s.byModel
                             ELSE /\ m \in DOMAIN s.byModel
                                  /\ s.byModel[m].requests = Len(mine)
                                  /\ s.byModel[m].cost = CostOfEntries(mine)
                                  /\ s.byModel[m].tokens =
                                        SumSeq([i \in DOMAIN mine |->
                                            mine[i].inputTokens + mine[i].outputTokens
                                            + mine[i].cachedTokens
                                            + mine[i].reasoningTokens])

\* C2 witness: a run of two completed calls on one date, with two models.
C2_Witness ==
    /\ costRun.active
    /\ Len(costRun.log) >= 2
    /\ \E i, j \in DOMAIN costRun.log : costRun.log[i].model # costRun.log[j].model

\* C3: after any sequence of recordCost and pruneOldEntries calls on an
\* initially empty store, every date key present in dailySummaries has
\* totalCost = the sum of the costs of the entries of that date still in the
\* log, and requestCount = their number.
C3_SummariesMatchEntries ==
    LET data == CostRead(costFile, costEmpty)
    IN  \A d \in DOMAIN data.dailySummaries :
            /\ data.dailySummaries[d].totalCost = CostOfEntries(EntriesOn(data.entries, d))
            /\ data.dailySummaries[d].requestCount = Len(EntriesOn(data.entries, d))

\* C4: a completed pruneOldEntries(r) leaves in the log exactly the entries
\* with timestamp >= now - r days, in their order, returns the number of
\* entries removed, and removes the summary key of a date that had entries
\* iff every entry of that date was pruned.
C4_PruneExact ==
    (costLast.op = "pruneOldEntries" /\ ~costLast.rejected) =>
        LET post == CostRead(costFile, costEmpty)
            pre == costLast.pre
            old == SelectSeq(pre, LAMBDA e : e.timestamp < costLast.cutoff)
        IN  /\ post.entries = SelectSeq(pre, LAMBDA e : ~(e.timestamp < costLast.cutoff))
            /\ costLast.ret = Len(old)
            /\ \A d \in DOMAIN costLast.preSummaries :
                  EntriesOn(pre, d) # <<>> =>
                      ((d \notin DOMAIN post.dailySummaries)
                          <=> (EntriesOn(pre, d) = EntriesOn(old, d)))

\* ------------------------------------------------------------------ presets: properties

PresetIdsOf(presets) == {presets[i].id : i \in DOMAIN presets}

\* A step that is a call of the preset service (the clock stands still).
PresetsCallStep(op) == presetsLast'.op = op /\ now' = now

\* C5: after savePreset returns preset p, getPreset(p.id) returns a preset
\* with the name, description and models passed in and createdAt =
\* updatedAt; p.id is the id of no preset stored before, and listPresets
\* still returns every preset stored before, unchanged.
C5_SaveThenGet ==
    [][(PresetsCallStep("savePreset") /\ presetsLast'.status = "ok") =>
          LET p == presetsLast'.data[1]
              before == ListPresets(presetsFile, presetsEmpty)
              after == ListPresets(presetsFile', presetsEmpty')
              got == GetPreset(presetsFile', presetsEmpty', p.id)
          IN  /\ got # <<>>
              /\ got[1].name = presetsLast'.name
              /\ got[1].description = presetsLast'.description
              /\ got[1].models = presetsLast'.models
              /\ got[1].createdAt = got[1].updatedAt
              /\ p.id \notin PresetIdsOf(before)
              /\ Len(after) >= Len(before)
              /\ SubSeq(after, 1, Len(before)) = before]_vars

\* C5 witness: savePreset returned a preset with a description and models
\* while other presets were stored.
C5_Witness ==
    /\ presetsLast.op = "savePreset" /\ presetsLast.status = "ok"
    /\ presetsLast.description # Undefined /\ presetsLast.models # <<>>
    /\ Len(ListPresets(presetsFile, presetsEmpty)) >= 2

\* C6: importing the string exportPresets returned adds, for every exported
\* preset and in their order, exactly one preset with the same name,
\* description and models (provider, modelId, metadata); the ids of the
\* added presets differ from every id in the store before the import, from
\* the exported ids and from each other.  (Nothing exported: nothing added.)
C6_ExportImportRoundTrip ==
    [][(/\ PresetsCallStep("importPresets")
        /\ exported.json # JUndef
        /\ presetsLast'.json = exported.json
        /\ presetsLast'.status # "rejected") =>
          LET ex == exported.presets
              before == ListPresets(presetsFile, presetsEmpty)
              after == ListPresets(presetsFile', presetsEmpty')
              added == presetsLast'.data
          IN  IF ex = <<>>
                  THEN presetsLast'.status = "error" /\ after = before
                  ELSE /\ presetsLast'.status = "ok"
                       /\ after = before \o added
                       /\ Len(added) = Len(ex)
                       /\ \A i \in DOMAIN added :
                             /\ added[i].name = ex[i].name
                             /\ added[i].description = ex[i].description
                             /\ added[i].models = ex[i].models
                             /\ added[i].id \notin PresetIdsOf(before)
                             /\ added[i].id \notin PresetIdsOf(ex)
                             /\ \A j \in DOMAIN added : j # i => added[j].id # added[i].id
       ]_vars

\* C6 witness: an import of an exported string added two presets, one of
\* them with a description and a model with metadata.
C6_Witness ==
    /\ presetsLast.op = "importPresets" /\ presetsLast.status = "ok"
    /\ presetsLast.json = exported.json
    /\ Len(presetsLast.data) = 2
    /\ \E i \in DOMAIN presetsLast.data :
          /\ presetsLast.data[i].description # Undefined
          /\ \E k \in DOMAIN presetsLast.data[i].models :
                presetsLast.data[i].models[k].metadata # JUndef

\* C13: deletePreset(id) and updatePreset(id, updates) with an id that no
\* stored preset has return {success: false, error} and do not write: the
\* file and the presets read from it are what they were before the call.
\* (A step of one of the two calls either has that outcome, or it is not a
\* call with an id that is not stored.)
C13_UnknownIdIsRefused ==
    [][\/ presetsLast'.op \notin {"deletePreset", "updatePreset"}
       \/ /\ presetsLast'.status = "error"
          /\ presetsFile' = presetsFile
          /\ ListPresets(presetsFile', presetsEmpty')
                = ListPresets(presetsFile, presetsEmpty)
       \/ \A id \in PresetIds \ PresetIdsOf(ListPresets(presetsFile, presetsEmpty)) :
             \A writeOk \in BOOLEAN :
                 /\ ~DeletePreset(id, writeOk)
                 /\ \A updates \in PresetUpdates : ~UpdatePreset(id, updates, writeOk)
      ]_vars

\* A deletePreset call was refused on a store that holds presets.
C13_Witness ==
    /\ presetsLast.op = "deletePreset"
    /\ presetsLast.status = "error"
    /\ ListPresets(presetsFile, presetsEmpty) # <<>>

\* C14: importPresets on a text with a presets array skips every element
\* that is not an object with a string name and an array models, and in a
\* preset every model without a string provider or a string modelId; it
\* succeeds with exactly the presets built from the other elements appended
\* to the store, and it returns an error, the file not written, iff no
\* element passes.
C14_ImportSkipsMalformed ==
    [][(/\ PresetsCallStep("importPresets")
        /\ Get(presetsLast'.json, "presets").t = "arr"
        /\ presetsLast'.status # "rejected") =>
          LET good == SelectSeq(Get(presetsLast'.json, "presets").a,
                                LAMBDA e : /\ e.t = "obj"
                                           /\ Get(e, "name").t = "str"
                                           /\ Get(e, "models").t = "arr")
              goodModels(e) == SelectSeq(Get(e, "models").a,
                                         LAMBDA m : /\ m.t = "obj"
                                                    /\ Get(m, "provider").t = "str"
                                                    /\ Get(m, "modelId").t = "str")
              before == ListPresets(presetsFile, presetsEmpty)
              after == ListPresets(presetsFile', presetsEmpty')
              added == presetsLast'.data
          IN  IF good = <<>>
                  THEN presetsLast'.status = "error" /\ presetsFile' = presetsFile
                  ELSE /\ presetsLast'.status = "ok"
                       /\ after = before \o added
                       /\ Len(added) = Len(good)
                       /\ \A i \in DOMAIN added :
                             /\ added[i].name = Get(good[i], "name").s
                             /\ Len(added[i].models) = Len(goodModels(good[i]))
                             /\ \A k \in DOMAIN added[i].models :
                                   /\ added[i].models[k].provider
                                         = Get(goodModels(good[i])[k], "provider").s
                                   /\ added[i].models[k].modelId
                                         = Get(goodModels(good[i])[k], "modelId").s
       ]_vars

\* An import succeeded that skipped an element of the array and, in the
\* preset it added, two of three models.
C14_Witness ==
    /\ presetsLast.op = "importPresets" /\ presetsLast.status = "ok"
    /\ Len(presetsLast.data) = 1
    /\ Len(Get(presetsLast.json, "presets").a) = 2
    /\ Len(presetsLast.data[1].models) = 1
    /\ Len(Get(Get(presetsLast.json, "presets").a[2], "models").a) = 3

\* C9: in each JSON store a read made while the file is missing or not
\* parsable yields the empty default (no presets; no entries and no
\* summaries), whatever calls ran before.
C9_MissingFileReadsEmpty ==
    /\ presetsFile.kind \in {"missing", "corrupt"} =>
          ListPresets(presetsFile, presetsEmpty) = <<>>
    /\ costFile.kind \in {"missing", "corrupt"} =>
          /\ CostRead(costFile, costEmpty).entries = <<>>
          /\ DOMAIN CostRead(costFile, costEmpty).dailySummaries = {}

\* C10: in both stores a file that parses but whose version is not 1 is
\* treated as absent: reads return the empty default, and a mutating call
\* that completes leaves a version-1 file.
C10_ForeignVersionIsAbsent ==
    /\ (presetsFile.kind = "json" /\ Get(presetsFile.json, "version") # JNum(1)) =>
          /\ ListPresets(presetsFile, presetsEmpty) = <<>>
          /\ presetsLast.op \in {"none", "exportPresets"} \/ presetsLast.status # "ok"
    /\ (costFile.kind = "json" /\ costFile.version # 1) =>
          /\ CostRead(costFile, costEmpty).entries = <<>>
          /\ costLast.op = "none" \/ costLast.rejected \/ costLast.ret = 0


\* ------------------------------------------------------------------ icon themes: properties

\* C7: importVsix writes an archive entry only inside the directory of the
\* theme it belongs to, and getIconFile returns content only for a file
\* inside the root directory of the theme.
C7_TraversalGuardSound ==
    /\ \A w \in iconLast.written : Within(w.target, w.themeDir)
    /\ (iconLast.op = "getIconFile" /\ iconLast.ret = "data") =>
          Within(iconLast.read, iconLast.root)

DefaultEntries(themes) ==
    {i \in DOMAIN themes : themes[i].id = DEFAULT_MUP_THEME_ID}

C15_DeleteThemeFrame ==
    [][(/\ iconLast'.op = "deleteTheme"
        /\ iconLast'.themeId # DEFAULT_MUP_THEME_ID
        /\ \E i \in DOMAIN iconConfig.installedThemes :
              /\ iconConfig.installedThemes[i].id = iconLast'.themeId
              /\ ~iconConfig.installedThemes[i].isBuiltin) =>
          LET id == iconLast'.themeId
              dir == Append(IconThemesDir, id)
          IN  /\ iconLast'.ret = "true"
              /\ iconConfig'.installedThemes =
                    SelectSeq(iconConfig.installedThemes, LAMBDA t : t.id # id)
              /\ Len(iconConfig'.installedThemes) = Len(iconConfig.installedThemes) - 1
              /\ iconConfig'.activeThemeId =
                    (IF iconConfig.activeThemeId = id THEN DEFAULT_MUP_THEME_ID
                                                      ELSE iconConfig.activeThemeId)
              /\ \/ iconDisk' = iconDisk
                 \/ /\ \A f \in iconDisk'.files : ~Within(f, dir)
                    /\ iconDisk'.files = {f \in iconDisk.files : ~Within(f, dir)}
       ]_vars

\* A deleteTheme call returned true for a theme whose directory could not
\* be removed: the theme is gone from the config, another one is still
\* installed, and the files are still there.
C15_Witness ==
    /\ iconLast.op = "deleteTheme" /\ iconLast.ret = "true"
    /\ \A i \in DOMAIN iconConfig.installedThemes :
          iconConfig.installedThemes[i].id # iconLast.themeId
    /\ iconConfig.installedThemes # <<>>
    /\ iconConfig.activeThemeId = DEFAULT_MUP_THEME_ID
    /\ \E f \in iconDisk.files : Within(f, Append(IconThemesDir, iconLast.themeId))

UniqueIds(themes) ==
    \A i, j \in DOMAIN themes : themes[i].id = themes[j].id => i = j

\* C16: installedThemes never holds two entries with the same id; an
\* importVsix call leaves exactly one entry for every id it returns in
\* importedThemeIds, namely the one it built from the archive (directory of
\* the theme, manifest path of the contribution), and leaves every other
\* entry as it was: an id is in importedThemeIds iff the call registered it.
C16_InstalledThemesUnique ==
    /\ UniqueIds(iconConfig.installedThemes)
    /\ [][/\ UniqueIds(iconConfig'.installedThemes)
          /\ \A archive \in Archives :
                ImportVsix(archive) =>
                    LET old == iconConfig.installedThemes
                        new == iconConfig'.installedThemes
                        imported == Range(iconLast'.imported)
                    IN  /\ \A id \in imported :
                              \E i \in DOMAIN new, k \in DOMAIN archive.contribs :
                                  /\ new[i].id = id
                                  /\ ThemeIdOf(archive, archive.contribs[k]) = id
                                  /\ new[i].themeDir = Append(IconThemesDir, id)
                                  /\ new[i].themeJsonPath
                                        = StripDotSlash(archive.contribs[k].path)
                                  /\ ~new[i].isBuiltin
                        /\ \A i \in DOMAIN new :
                              new[i].id \notin imported =>
                                  \E j \in DOMAIN old : old[j] = new[i]
                        /\ \A j \in DOMAIN old :
                              old[j].id \notin imported =>
                                  \E i \in DOMAIN new : new[i] = old[j]
         ]_vars

\* An importVsix call registered one theme, with the manifest path of its
\* archive, and failed for another one, next to a theme that was installed
\* before.
C16_Witness ==
    /\ iconLast.op = "importVsix"
    /\ iconLast.imported = <<ThemeA>>
    /\ iconLast.errors # <<>>
    /\ \E i \in DOMAIN iconConfig.installedThemes :
          /\ iconConfig.installedThemes[i].id = ThemeA
          /\ iconConfig.installedThemes[i].themeJsonPath = <<"j">>
    /\ \E i \in DOMAIN iconConfig.installedThemes :
          iconConfig.installedThemes[i].id = ThemeAB

\* loadThemeDocument finds the manifest of the theme:
\* fs.existsSync(path.join(theme.themeDir, theme.themeJsonPath))
ManifestOnDisk(disk, theme) ==
    ExistsSync(disk, PathJoin(theme.themeDir, theme.themeJsonPath))

\* C25: an importVsix call leaves every registered theme usable: each theme
\* listed in installedThemes at the end of the call, one whose re-import
\* just failed included, has its manifest file at themeDir/themeJsonPath on
\* disk, provided it was registered by the call or had the file before it.
C25_ImportKeepsThemesUsable ==
    [][\A archive \in Archives :
          ImportVsix(archive) =>
              \A i \in DOMAIN iconConfig'.installedThemes :
                  LET theme == iconConfig'.installedThemes[i]
                  IN  (/\ theme.hasDir
                       /\ \/ theme.id \in Range(iconLast'.imported)
                          \/ /\ theme \in Range(iconConfig.installedThemes)
                             /\ ManifestOnDisk(iconDisk, theme)) =>
                          ManifestOnDisk(iconDisk', theme)
      ]_vars

\* C27: whatever publisher, name and contributed id the package.json of
\* the archive holds, the directory importVsix removes, recreates and
\* extracts into lies strictly inside the icon-themes root, and deleteTheme
\* removes only directories inside that root.
C27_ThemeDirInsideRoot ==
    \A dir \in iconLast.dirs :
        /\ Within(dir, IconThemesDir)
        /\ iconLast.op = "importVsix" => dir # IconThemesDir

\* C26: when deleteTheme(id) overlaps with an importVsix or another
\* deleteTheme call that changes installedThemes between its config read
\* and its config edit, the only entry its edit removes from
\* installedThemes is the one whose id is id.
C26_DeleteRemovesOnlyItsTheme ==
    [][\A c \in CallIds :
          DeleteThemeEdit(c) =>
              \A i \in DOMAIN iconConfig.installedThemes :
                  LET theme == iconConfig.installedThemes[i]
                  IN  theme \notin Range(iconConfig'.installedThemes) =>
                          theme.id = iconInFlight[c].themeId
      ]_vars

\* ================================================================== specifications

InitCost == now = 0 /\ CostInit /\ PresetsIdle /\ IconIdle /\ HealthIdle /\ ClientIdle /\ WritesIdle /\ AppIdle

NextCost ==
    \/ CostRecordStep /\ UNCHANGED <<presetsVars, iconVars, healthVars, clientVars, writeVars, appVars>>
    \/ CostPruneStep /\ UNCHANGED <<presetsVars, iconVars, healthVars, clientVars, writeVars, appVars>>
    \/ Tick /\ UNCHANGED <<costVars, presetsVars, iconVars, healthVars, clientVars, writeVars, appVars>>

SpecCost == InitCost /\ [][NextCost]_vars

\* The cost service on a disk whose writes all succeed.
NextCostReliable ==
    \/ CostRecordOk /\ UNCHANGED <<presetsVars, iconVars, healthVars, clientVars, writeVars, appVars>>
    \/ CostPruneOk /\ UNCHANGED <<presetsVars, iconVars, healthVars, clientVars, writeVars, appVars>>
    \/ Tick /\ UNCHANGED <<costVars, presetsVars, iconVars, healthVars, clientVars, writeVars, appVars>>

SpecCostReliable == InitCost /\ [][NextCostReliable]_vars

InitPresets == now = 0 /\ PresetsInit /\ CostIdle /\ IconIdle /\ HealthIdle /\ ClientIdle /\ WritesIdle /\ AppIdle

\* Saving, editing and deleting presets.
NextPresets ==
    \/ PresetsSaveStep /\ UNCHANGED <<costVars, iconVars, healthVars, clientVars, writeVars, appVars>>
    \/ PresetsDeleteStep /\ UNCHANGED <<costVars, iconVars, healthVars, clientVars, writeVars, appVars>>
    \/ PresetsUpdateStep /\ UNCHANGED <<costVars, iconVars, healthVars, clientVars, writeVars, appVars>>
    \/ PresetsTick /\ UNCHANGED <<costVars, presetsVars, iconVars, healthVars, clientVars, writeVars, appVars>>

SpecPresets == InitPresets /\ [][NextPresets]_vars

\* Saving, deleting, exporting and importing presets.
NextPresetsTransfer ==
    \/ PresetsSaveStep /\ UNCHANGED <<costVars, iconVars, healthVars, clientVars, writeVars, appVars>>
    \/ PresetsDeleteStep /\ UNCHANGED <<costVars, iconVars, healthVars, clientVars, writeVars, appVars>>
    \/ PresetsExportStep /\ UNCHANGED <<costVars, iconVars, healthVars, clientVars, writeVars, appVars>>
    \/ PresetsImportTextStep /\ UNCHANGED <<costVars, iconVars, healthVars, clientVars, writeVars, appVars>>
    \/ PresetsImportExportedStep /\ UNCHANGED <<costVars, iconVars, healthVars, clientVars, writeVars, appVars>>
    \/ PresetsTick /\ UNCHANGED <<costVars, presetsVars, iconVars, healthVars, clientVars, writeVars, appVars>>

SpecPresetsTransfer == InitPresets /\ [][NextPresetsTransfer]_vars

InitIcon == now = 0 /\ IconInit /\ CostIdle /\ PresetsIdle /\ HealthIdle /\ ClientIdle /\ WritesIdle /\ AppIdle

NextIcon ==
    \/ IconSetActiveStep /\ UNCHANGED <<now, costVars, presetsVars, healthVars, clientVars, writeVars, appVars>>
    \/ IconDeleteStep /\ UNCHANGED <<now, costVars, presetsVars, healthVars, clientVars, writeVars, appVars>>
    \/ IconImportStep /\ UNCHANGED <<now, costVars, presetsVars, healthVars, clientVars, writeVars, appVars>>
    \/ IconGetFileStep /\ UNCHANGED <<now, costVars, presetsVars, healthVars, clientVars, writeVars, appVars>>

SpecIcon == InitIcon /\ [][NextIcon]_vars

InitHealth == now = 0 /\ HealthInit /\ CostIdle /\ PresetsIdle /\ IconIdle /\ ClientIdle /\ WritesIdle /\ AppIdle

NextHealth ==
    \/ HealthCheckStep /\ UNCHANGED <<now, costVars, presetsVars, iconVars, clientVars, writeVars, appVars>>

SpecHealth == InitHealth /\ [][NextHealth]_vars

InitHealthRules == now = 0 /\ HealthRulesInit /\ CostIdle /\ PresetsIdle /\ IconIdle /\ ClientIdle /\ WritesIdle /\ AppIdle

NextHealthRules ==
    \/ CheckTokenLimitsStep /\ UNCHANGED <<now, costVars, presetsVars, iconVars, clientVars, writeVars, appVars>>
    \/ CheckPricingStep /\ UNCHANGED <<now, costVars, presetsVars, iconVars, clientVars, writeVars, appVars>>

SpecHealthRules == InitHealthRules /\ [][NextHealthRules]_vars

InitPredict ==
    /\ now = 0 /\ PredictInit /\ FavoritesIdle
    /\ CostIdle /\ PresetsIdle /\ IconIdle /\ HealthIdle /\ WritesIdle /\ AppIdle

NextPredict ==
    \/ /\ PredictStep
       /\ UNCHANGED <<now, costVars, presetsVars, iconVars, healthVars,
                      favorites, favoritesView, favoritesShared, favLast, writeVars, appVars>>

SpecPredict == InitPredict /\ [][NextPredict]_vars

InitFavorites ==
    /\ now = 0 /\ FavoritesInit /\ prediction = NoPrediction
    /\ CostIdle /\ PresetsIdle /\ IconIdle /\ HealthIdle /\ WritesIdle /\ AppIdle

NextFavorites ==
    \/ FavoritesAddStep /\ UNCHANGED <<prediction, costVars, presetsVars, iconVars, healthVars, writeVars, appVars>>
    \/ FavoritesRemoveStep /\ UNCHANGED <<prediction, costVars, presetsVars, iconVars, healthVars, writeVars, appVars>>
    \/ FavoritesToggleStep /\ UNCHANGED <<prediction, costVars, presetsVars, iconVars, healthVars, writeVars, appVars>>
    \/ FavoritesSortStep /\ UNCHANGED <<prediction, costVars, presetsVars, iconVars, healthVars, writeVars, appVars>>
    \/ FavoritesRenderStep /\ UNCHANGED <<prediction, costVars, presetsVars, iconVars, healthVars, writeVars, appVars>>
    \/ FavoritesTick /\ UNCHANGED <<prediction, costVars, presetsVars, iconVars, healthVars, writeVars, appVars>>

SpecFavorites == InitFavorites /\ [][NextFavorites]_vars

InitWrites == now = 0 /\ WritesInit /\ IconIdle /\ HealthIdle /\ ClientIdle /\ AppIdle

NextWrites ==
    \/ /\ SavePresetCallStep
       /\ UNCHANGED <<costVars, costInFlight, iconInFlight, presetsLast, exported, iconVars, healthVars, clientVars, appVars>>
    \/ /\ SavePresetReadStep
       /\ UNCHANGED <<costVars, costInFlight, iconInFlight, presetsLast, exported, iconVars, healthVars, clientVars, appVars>>
    \/ /\ SavePresetStringifyStep
       /\ UNCHANGED <<costVars, costInFlight, iconInFlight, presetsLast, exported, iconVars, healthVars, clientVars, appVars>>
    \/ /\ SavePresetWriteStep
       /\ UNCHANGED <<costVars, costInFlight, iconInFlight, presetsLast, exported, iconVars, healthVars, clientVars, appVars>>
    \/ /\ RecordCostCallStep
       /\ UNCHANGED <<presetsVars, presetsInFlight, iconInFlight, costLast, costRun, costCalls, iconVars, healthVars, clientVars, appVars>>
    \/ /\ RecordCostReadStep
       /\ UNCHANGED <<presetsVars, presetsInFlight, iconInFlight, costLast, costRun, costCalls, iconVars, healthVars, clientVars, appVars>>
    \/ /\ RecordCostStringifyStep
       /\ UNCHANGED <<presetsVars, presetsInFlight, iconInFlight, costLast, costRun, costCalls, iconVars, healthVars, clientVars, appVars>>
    \/ /\ RecordCostWriteStep
       /\ UNCHANGED <<presetsVars, presetsInFlight, iconInFlight, costLast, costRun, costCalls, iconVars, healthVars, clientVars, appVars>>
    \/ /\ Crash
       /\ UNCHANGED <<presetsLast, exported, costLast, costRun, costCalls,
                      iconInFlight, iconVars, healthVars, clientVars, appVars>>

SpecWrites == InitWrites /\ [][NextWrites]_vars

InitIconManifest ==
    now = 0 /\ ManifestInit /\ CostIdle /\ PresetsIdle /\ HealthIdle /\ ClientIdle /\ WritesIdle /\ AppIdle

NextIconManifest ==
    \/ /\ ManifestImportStep
       /\ UNCHANGED <<now, costVars, presetsVars, healthVars, clientVars, writeVars, appVars>>
    \/ /\ ManifestDeleteStep
       /\ UNCHANGED <<now, costVars, presetsVars, healthVars, clientVars, writeVars, appVars>>

SpecIconManifest == InitIconManifest /\ [][NextIconManifest]_vars

InitIconOverlap ==
    /\ now = 0 /\ IconIdle /\ CostIdle /\ PresetsIdle /\ HealthIdle /\ ClientIdle
    /\ WritesIdle /\ AppIdle

NextIconOverlap ==
    \/ /\ DeleteThemeReadStep
       /\ UNCHANGED <<now, costVars, presetsVars, healthVars, clientVars,
                      presetsInFlight, costInFlight, writeOrder, appVars>>
    \/ /\ DeleteThemeEditStep
       /\ UNCHANGED <<now, costVars, presetsVars, healthVars, clientVars,
                      presetsInFlight, costInFlight, writeOrder, appVars>>
    \/ /\ DeleteThemeRmStep
       /\ UNCHANGED <<now, costVars, presetsVars, healthVars, clientVars,
                      presetsInFlight, costInFlight, writeOrder, appVars>>
    \/ /\ OverlapImportStep
       /\ UNCHANGED <<now, costVars, presetsVars, healthVars, clientVars,
                      presetsInFlight, costInFlight, writeOrder, appVars>>

SpecIconOverlap == InitIconOverlap /\ [][NextIconOverlap]_vars

InitSidecar ==
    /\ now = 0 /\ SidecarIdle /\ DeepLinkIdle /\ UiIdle
    /\ CostIdle /\ PresetsIdle /\ IconIdle /\ HealthIdle /\ ClientIdle /\ WritesIdle

NextSidecar ==
    \/ /\ ShutdownStartsStep
       /\ UNCHANGED <<now, costVars, presetsVars, iconVars, healthVars, clientVars, writeVars,
                      deepLinkVars, uiVars>>
    \/ /\ ServerCloseSettlesStep
       /\ UNCHANGED <<now, costVars, presetsVars, iconVars, healthVars, clientVars, writeVars,
                      deepLinkVars, uiVars>>
    \/ /\ ContainerDisposeSettlesStep
       /\ UNCHANGED <<now, costVars, presetsVars, iconVars, healthVars, clientVars, writeVars,
                      deepLinkVars, uiVars>>

SpecSidecar == InitSidecar /\ [][NextSidecar]_vars

InitDeepLink ==
    /\ now = 0 /\ DeepLinkIdle /\ SidecarIdle /\ UiIdle
    /\ CostIdle /\ PresetsIdle /\ IconIdle /\ HealthIdle /\ ClientIdle /\ WritesIdle

NextDeepLink ==
    \/ /\ DeepLinkEventStep
       /\ UNCHANGED <<now, costVars, presetsVars, iconVars, healthVars, clientVars, writeVars,
                      sidecar, shutdowns, uiVars>>
    \/ /\ DeepLinkConsumeStep
       /\ UNCHANGED <<now, costVars, presetsVars, iconVars, healthVars, clientVars, writeVars,
                      sidecar, shutdowns, uiVars>>
    \/ /\ OnDeepLinkStep
       /\ UNCHANGED <<now, costVars, presetsVars, iconVars, healthVars, clientVars, writeVars,
                      sidecar, shutdowns, uiVars>>
    \/ /\ UnsubscribeStep
       /\ UNCHANGED <<now, costVars, presetsVars, iconVars, healthVars, clientVars, writeVars,
                      sidecar, shutdowns, uiVars>>

SpecDeepLink == InitDeepLink /\ [][NextDeepLink]_vars

InitModels ==
    /\ now = 0 /\ ModelsIdle /\ ThemeIdle /\ SnippetsIdle /\ SidecarIdle /\ DeepLinkIdle
    /\ CostIdle /\ PresetsIdle /\ IconIdle /\ HealthIdle /\ ClientIdle /\ WritesIdle

ModelsRest == <<now, costVars, presetsVars, iconVars, healthVars, clientVars, writeVars,
                sidecar, shutdowns, deepLinkVars, themeVars, snippetVars>>

NextModels ==
    \/ HandleAddModelStep /\ UNCHANGED ModelsRest
    \/ HandleRemoveModelStep /\ UNCHANGED ModelsRest
    \/ HandleSaveEditStep /\ UNCHANGED ModelsRest
    \/ HandleSaveStep /\ UNCHANGED ModelsRest
    \/ HandleLoadStep /\ UNCHANGED ModelsRest

SpecModels == InitModels /\ [][NextModels]_vars

InitTheme ==
    /\ now = 0 /\ ThemeIdle /\ ModelsIdle /\ SnippetsIdle /\ SidecarIdle /\ DeepLinkIdle
    /\ CostIdle /\ PresetsIdle /\ IconIdle /\ HealthIdle /\ ClientIdle /\ WritesIdle

ThemeRest == <<now, costVars, presetsVars, iconVars, healthVars, clientVars, writeVars,
               sidecar, shutdowns, deepLinkVars, modelsVars, snippetVars>>

NextTheme ==
    \/ FetchThemeStartsStep /\ UNCHANGED ThemeRest
    \/ GetActiveThemeIdSettlesStep /\ UNCHANGED ThemeRest
    \/ GetActiveThemeDocumentSettlesStep /\ UNCHANGED ThemeRest
    \/ ApiServerUrlResolvesStep /\ UNCHANGED ThemeRest

SpecTheme == InitTheme /\ [][NextTheme]_vars

InitSnippets ==
    /\ now = 0 /\ SnippetsIdle /\ ThemeIdle /\ ModelsIdle /\ SidecarIdle /\ DeepLinkIdle
    /\ CostIdle /\ PresetsIdle /\ IconIdle /\ HealthIdle /\ ClientIdle /\ WritesIdle

SnippetsRest == <<now, costVars, presetsVars, iconVars, healthVars, clientVars, writeVars,
                  sidecar, shutdowns, deepLinkVars, modelsVars, themeVars>>

NextSnippets ==
    \/ CreateSnippetStep /\ UNCHANGED SnippetsRest
    \/ DeleteSnippetStep /\ UNCHANGED SnippetsRest
    \/ DuplicateSnippetStep /\ UNCHANGED SnippetsRest
    \/ ImportSnippetsStep /\ UNCHANGED SnippetsRest
    \/ ReaderOnloadStep /\ UNCHANGED SnippetsRest
    \/ ReaderOnerrorStep /\ UNCHANGED SnippetsRest

SpecSnippets == InitSnippets /\ [][NextSnippets]_vars

=============================================================================
